---- MODULE Spec2Model ----
(***************************************************************************)
(* Model of the UGC video generation pipeline: one invocation of           *)
(* UGCVideoPipeline.generate (src/src/pipeline.py) together with the       *)
(* services it drives: LLMService (src/src/llm_service.py), VideoService   *)
(* (src/src/video_service.py) and StorageService                           *)
(* (src/src/storage_service.py).                                           *)
(*                                                                         *)
(* Python's Optional[T] is modelled as a sequence of length at most one:   *)
(* None is <<>> and a present value v is <<v>>.  An exception is a record  *)
(* [kind, msg]; str(e) is its msg.  The collaborators (OpenAI chat and     *)
(* video endpoints, the filesystem) are the environment: every request     *)
(* either raises or answers with a response drawn from a small set.        *)
(***************************************************************************)
EXTENDS Integers, Sequences, FiniteSets, TLC

(***************************************************************************)
(* Settings (src/src/config.py) and retry policies (tenacity decorators).  *)
(***************************************************************************)
\* settings.max_poll_attempts: configurable; kept small here.
max_poll_attempts == 3
\* settings.poll_interval_seconds
poll_interval_seconds == 10
\* settings.default_video_duration
default_video_duration == 8
\* stop_after_attempt(3) of _call_llm, generate_video and check_video_status
stop_after_attempt == 3

None == <<>>
Some(v) == <<v>>
IsNone(o) == o = <<>>
Get(o) == o[1]

Min2(a, b) == IF a < b THEN a ELSE b
Max2(a, b) == IF a > b THEN a ELSE b

RECURSIVE Pow2(_)
Pow2(n) == IF n <= 0 THEN 1 ELSE 2 * Pow2(n - 1)

\* tenacity wait_exponential(multiplier, min, max) evaluated for the attempt
\* that just failed: multiplier * 2^(attempt-1), clamped to [min, max].
wait_exponential(multiplier, lo, hi, attempt) ==
    Max2(Max2(0, lo), Min2(multiplier * Pow2(attempt - 1), hi))

\* Wait before the next attempt of _call_llm / generate_video (min=2, max=10).
call_backoff(attempt) == wait_exponential(1, 2, 10, attempt)
\* Wait before the next attempt of check_video_status (min=1, max=5).
check_backoff(attempt) == wait_exponential(1, 1, 5, attempt)

\* Mutant: tenacity gives up after the second attempt.
RetryAgain_TwoAttempts(attempt) == attempt < 2

\* Mutant: tenacity stops one attempt late.
RetryAgain_FourAttempts(attempt) == attempt <= 3

\* stop_after_attempt(3): another attempt is made while fewer than 3 were.
RetryAgain(attempt) == attempt < stop_after_attempt

(***************************************************************************)
(* Exceptions.                                                             *)
(***************************************************************************)
Exc(kind, msg) == [kind |-> kind, msg |-> msg]
\* str(e)
Str(e) == e.msg
\* The transient error a collaborator request raises (network, rate limit, 5xx).
APIError == Exc("APIConnectionError", "Connection error.")
\* The filesystem error raised by mkdir / write_text in _save_local.
StorageError(errno) == Exc("OSError", errno)
\* tenacity raises RetryError (reraise is left False) once the attempts are used up.
RetryError(last) == Exc("RetryError", "RetryError[" \o last.kind \o "]")

(***************************************************************************)
(* Inputs of generate and responses of the collaborators.                  *)
(***************************************************************************)
Topic == "sleep tracking"
\* generate(duration=...): the default of the signature (the argument only
\* reaches the prompt text and the metadata of the failed record).
DurationInputs == {None}
StorageTypes == {"local", "s3"}
JobIds == {"video_a", "video_b"}

VideoStatusValues == {"queued", "in_progress", "completed", "failed"}
\* response.status as sent by the rendering collaborator: the four known
\* strings, one of them in upper case, and "expired" for any string that is
\* none of the four in whatever letter case.
RawStatuses ==
    {"queued", "in_progress", "completed", "failed", "COMPLETED", "expired"}
ProgressValues == {None, Some(50)}
ErrorValues == {None, Some(""), Some("model overloaded")}
\* Responses of videos.retrieve: every status with and without progress and no
\* error, a failed job with each error value, and two responses that carry
\* an error text although the job has not failed.
StatusResponses ==
    [status : RawStatuses, progress : ProgressValues, error : {None}]
    \cup [status : {"failed"}, progress : {None}, error : ErrorValues]
    \cup [status : {"completed", "queued"}, progress : {Some(0)},
          error : {Some("model overloaded")}]

ValidMetadata ==
    [duration |-> 8, tone |-> "calm", hashtags |-> <<"#sleep", "#app">>,
     target_audience |-> "parents"]
\* Replies of the script collaborator: a conforming one and three malformed ones.
LLMReplyKinds == {"valid", "bad_json", "no_sora_prompt", "no_tone"}
\* What writing metadata.json does: it succeeds or fails with an OS error.
WriteOutcomes == {"ok", "ENOSPC", "EACCES"}

VARIABLES
    pc,              \* position inside generate
    storage_type,    \* settings.storage_type
    duration,        \* generate(duration=...)
    store_result,    \* generate(store_result=...)
    download_video,  \* generate(download_video=...)
    now,             \* the clock read by datetime.utcnow()
    start_time,      \* generate: start_time
    llm_attempt,     \* tenacity attempt number inside _call_llm
    llm_calls,       \* chat.completions.create requests made
    event_loop,      \* api.py: the request whose handler occupies the event loop
    request_state,   \* api.py: where each HTTP request is
    sleeps_left,     \* time.sleep calls the generate of a request still makes
    background_tasks,\* api.py: state of generate_in_background per request
    responses,       \* api.py: status code sent for each request (0: none)
    async_jobs,      \* api.py: job_id answered by /async, key its record got
    inv_pc,          \* position of each of several concurrent generate calls
    inv_job_id,      \* job_id of each concurrent generate call (Optional)
    job_dirs,        \* per job directory: the metadata.json writes it received
    disk,            \* metadata.json files found in the storage directory
    load_outcome,    \* a call of load_result and what it gave
    raw_seen,        \* response.status of each status check that was answered
    gui,             \* gui.py: the locals of VideoGeneratorGUI.generate_video
    script_result,   \* a reply given to generate_script and what it made of it
    submitted,       \* the duration generate passed to generate_video
    status_result,   \* a response given to check_video_status and its result
    llm_failed,      \* chat.completions.create requests that raised
    llm_waits,       \* waits tenacity made between attempts of _call_llm
    script_data,     \* generate: script_data (Optional GeneratedScript)
    submit_attempt,  \* tenacity attempt number inside generate_video
    submit_requests, \* videos.create requests made
    submit_failed,   \* videos.create requests that raised
    submit_waits,    \* waits tenacity made between attempts of generate_video
    job_id,          \* generate: job_id (Optional str)
    attempts,        \* poll_video_status: attempts
    check_attempt,   \* tenacity attempt number inside check_video_status
    status_checks,   \* calls of check_video_status
    status_requests, \* videos.retrieve requests made
    checked_ids,     \* identifiers passed to videos.retrieve
    poll_sleeps,     \* time.sleep(poll_interval) calls of poll_video_status
    seen,            \* what each finished status check gave: a status or "error"
    video_status,    \* generate: video_status (Optional VideoJobStatus)
    failed_status,   \* the status poll_video_status raised RuntimeError for
    result,          \* the last VideoResult built (Optional)
    results_built,   \* number of VideoResult objects built
    exc,             \* the exception in flight or raised (Optional)
    failed_step,     \* the step whose exception entered the except block
    store_calls,     \* calls of StorageService.store_result
    store_errors,    \* exceptions swallowed by the failure-path store
    store_log,       \* each store_result call: record, download flag, outcome
    downloads,       \* job ids passed to download_video_content
    storage,         \* metadata.json per job directory
    files,           \* video.mp4 of each job directory that holds one
    returned,        \* value generate returned (Optional VideoResult)
    raised           \* exception generate raised to its caller (Optional)

vars == <<pc, storage_type, duration, store_result, download_video, now,
          start_time, llm_attempt, llm_calls, script_data, submit_attempt,
          submit_requests, job_id, attempts, check_attempt, status_checks,
          status_requests, checked_ids, poll_sleeps, seen, video_status, failed_status,
          result,
          results_built, exc, failed_step, store_calls, store_errors,
          downloads, storage, files, returned,
          raised, llm_waits, submit_waits, store_log, llm_failed,
          submit_failed, event_loop, request_state, sleeps_left,
          background_tasks, responses, inv_pc, inv_job_id, job_dirs,
          script_result, submitted, status_result, async_jobs, disk,
          load_outcome, raw_seen, gui>>

unitVars == <<script_result, submitted, status_result, disk, load_outcome,
              raw_seen, gui>>
concVars == <<inv_pc, inv_job_id, job_dirs>>
serverVars == <<event_loop, request_state, sleeps_left, background_tasks,
                responses, async_jobs>>
inputVars == <<storage_type, duration, store_result, download_video>>
llmVars == <<llm_attempt, llm_calls, llm_failed, llm_waits, script_data>>
submitVars == <<submit_attempt, submit_requests, submit_failed, submit_waits,
                job_id>>
pollVars == <<attempts, check_attempt, status_checks, status_requests, checked_ids,
              poll_sleeps, seen, video_status, failed_status>>
storeVars == <<store_calls, store_errors, store_log, downloads, storage,
               files>>
endVars == <<result, results_built, returned, raised>>

\* HTTP requests sent to one server process, and the route of each.
Requests == {"videos_1", "videos_2", "async_1", "health_1"}
Route(r) ==
    CASE r \in {"videos_1", "videos_2"} -> "/api/v1/videos"
      [] r = "async_1" -> "/api/v1/videos/async"
      [] OTHER -> "/health"

\* generate_video_async, line 119: f"job_{uuid.uuid4().hex[:16]}".
ApiJobIds == {"job_3f2a9c1d5e7b8a64", "job_0b1c2d3e4f5a6b7c"}

\* The server process before any request has arrived.
ServerIdle ==
    /\ event_loop = None
    /\ request_state = [r \in Requests |-> "idle"]
    /\ sleeps_left = [r \in Requests |-> 0]
    /\ background_tasks = [r \in Requests |-> "none"]
    /\ responses = [r \in Requests |-> 0]
    /\ async_jobs = [r \in Requests |-> [job_id |-> None, stored_as |-> None]]

\* generate calls running concurrently in one process.
Invocations == {"g1", "g2"}

\* No concurrent generate call has started and the storage directory is
\* empty.
NoneStarted ==
    /\ inv_pc = [i \in Invocations |-> "start"]
    /\ inv_job_id = [i \in Invocations |-> None]
    /\ job_dirs = [k \in {} |-> <<>>]

\* Neither generate_script nor check_video_status has been called on its
\* own.
NothingCalled ==
    /\ script_result = None
    /\ submitted = None
    /\ status_result = None
    /\ disk = [k \in {} |-> None]
    /\ load_outcome = None
    /\ raw_seen = <<>>
    /\ gui = [pc |-> "idle", job_id |-> None, attempts |-> 0, seen |-> <<>>,
              progress |-> None, sleeps |-> 0, downloads |-> 0,
              outcome |-> None]

Init ==
    /\ pc = "start"
    /\ ServerIdle
    /\ NoneStarted
    /\ NothingCalled
    /\ storage_type \in StorageTypes
    /\ duration \in DurationInputs
    /\ store_result \in BOOLEAN
    /\ download_video \in BOOLEAN
    /\ now = 0
    /\ start_time = 0
    /\ llm_attempt = 0
    /\ llm_calls = 0
    /\ llm_waits = <<>>
    /\ llm_failed = 0
    /\ script_data = None
    /\ submit_attempt = 0
    /\ submit_requests = 0
    /\ submit_waits = <<>>
    /\ submit_failed = 0
    /\ job_id = None
    /\ attempts = 0
    /\ check_attempt = 0
    /\ status_checks = 0
    /\ status_requests = 0
    /\ checked_ids = {}
    /\ poll_sleeps = 0
    /\ seen = <<>>
    /\ video_status = None
    /\ failed_status = None
    /\ result = None
    /\ results_built = 0
    /\ exc = None
    /\ failed_step = "none"
    /\ store_calls = 0
    /\ store_errors = <<>>
    /\ store_log = <<>>
    /\ downloads = <<>>
    /\ storage = [j \in {} |-> None]
    /\ files = [j \in {} |-> "whole"]
    /\ returned = None
    /\ raised = None

\* generate, lines 53-61: read the clock, clear job_id, enter step 1 and call
\* generate_script, which calls _call_llm (first attempt).
Generate ==
    /\ pc = "start"
    /\ start_time' = now
    /\ job_id' = None
    /\ llm_attempt' = 1
    /\ pc' = "script"
    /\ UNCHANGED <<unitVars, concVars, serverVars, inputVars, now, llm_calls, llm_failed, llm_waits,
                   script_data, submit_attempt, submit_requests,
                   submit_failed, submit_waits, pollVars, storeVars, endVars,
                   exc, failed_step>>

\* An exception leaves the try block of generate (line 114): control enters
\* the except block with e in flight.
Raise(e, step) ==
    /\ exc' = Some(e)
    /\ failed_step' = step
    /\ pc' = "except"

(***************************************************************************)
(* Step 1: LLMService.generate_script and _call_llm.                       *)
(***************************************************************************)
\* generate_script, lines 79-86: json.loads and the GeneratedScript constructor.
ReplyIsValid(kind) == kind = "valid"

GeneratedScript(kind) ==
    [script |-> "I tried this app and...", sora_prompt |-> "A parent films...",
     metadata |-> ValidMetadata]

\* generate_script, lines 93-101: what a malformed reply raises.
ReplyError(kind) ==
    CASE kind = "bad_json" ->
            Exc("ValueError", "Invalid JSON response from LLM: Expecting value")
      [] kind = "no_sora_prompt" ->
            Exc("ValueError", "LLM response missing required field: 'sora_prompt'")
      [] OTHER ->
            Exc("ValidationError", "1 validation error for ScriptMetadata: tone")

\* _call_llm: the request raises.  tenacity waits and tries again, or gives
\* up with RetryError after the third attempt; generate_script re-raises it.
LLMRequestFail ==
    /\ pc = "script"
    /\ llm_calls' = llm_calls + 1
    /\ llm_failed' = llm_failed + 1
    /\ IF RetryAgain(llm_attempt)
       THEN /\ llm_attempt' = llm_attempt + 1
            /\ llm_waits' = Append(llm_waits, call_backoff(llm_attempt))
            /\ now' = now + call_backoff(llm_attempt)
            /\ UNCHANGED <<pc, exc, failed_step>>
       ELSE /\ Raise(RetryError(APIError), "script")
            /\ UNCHANGED <<llm_attempt, llm_waits, now>>
    /\ UNCHANGED <<unitVars, concVars, serverVars, inputVars, start_time, script_data, submitVars, pollVars,
                   storeVars, endVars>>

\* Mutant: a malformed reply is requested again like a transient failure.
LLMRequestOk_RetriesMalformed ==
    /\ pc = "script"
    /\ llm_calls' = llm_calls + 1
    /\ \E kind \in {"valid", "bad_json", "no_sora_prompt", "no_tone"} :
         IF kind = "valid"
         THEN /\ script_data' = <<[script |-> "I tried this app and...",
                                   sora_prompt |-> "A parent films...",
                                   metadata |-> [duration |-> 8,
                                                 tone |-> "calm",
                                                 hashtags |->
                                                    <<"#sleep", "#app">>,
                                                 target_audience |->
                                                    "parents"]]>>
              /\ submit_attempt' = 1
              /\ pc' = "submit"
              /\ UNCHANGED <<exc, failed_step, llm_attempt>>
         ELSE IF llm_attempt < 3
              THEN /\ llm_attempt' = llm_attempt + 1
                   /\ UNCHANGED <<pc, exc, failed_step, script_data,
                                  submit_attempt>>
              ELSE /\ exc' = <<[kind |-> "ValueError", msg |-> "malformed"]>>
                   /\ failed_step' = "script"
                   /\ pc' = "except"
                   /\ UNCHANGED <<script_data, submit_attempt, llm_attempt>>
    /\ UNCHANGED <<unitVars, concVars, serverVars, inputVars, now, start_time, llm_failed, llm_waits,
                   submit_requests, submit_failed, submit_waits, job_id,
                   pollVars, storeVars, endVars>>

\* _call_llm returns the reply text; generate_script parses and validates it.
\* A conforming reply makes generate go on to step 2 and call generate_video
\* (first attempt); a malformed one raises without another request.
LLMRequestOk ==
    /\ pc = "script"
    /\ llm_calls' = llm_calls + 1
    /\ \E kind \in LLMReplyKinds :
         IF ReplyIsValid(kind)
         THEN /\ script_data' = Some(GeneratedScript(kind))
              /\ submit_attempt' = 1
              /\ pc' = "submit"
              /\ UNCHANGED <<exc, failed_step>>
         ELSE /\ Raise(ReplyError(kind), "script")
              /\ UNCHANGED <<script_data, submit_attempt>>
    /\ UNCHANGED <<unitVars, concVars, serverVars, inputVars, now, start_time, llm_attempt, llm_failed,
                   llm_waits, submit_requests, submit_failed, submit_waits,
                   job_id, pollVars, storeVars, endVars>>

(***************************************************************************)
(* Step 2: VideoService.generate_video.                                    *)
(***************************************************************************)
\* videos.create raises: logged and re-raised (lines 60-62); tenacity waits
\* and tries again, or gives up with RetryError after the third attempt.
SubmitRequestFail ==
    /\ pc = "submit"
    /\ submit_requests' = submit_requests + 1
    /\ submit_failed' = submit_failed + 1
    /\ IF RetryAgain(submit_attempt)
       THEN /\ submit_attempt' = submit_attempt + 1
            /\ submit_waits' = Append(submit_waits, call_backoff(submit_attempt))
            /\ now' = now + call_backoff(submit_attempt)
            /\ UNCHANGED <<pc, exc, failed_step>>
       ELSE /\ Raise(RetryError(APIError), "submit")
            /\ UNCHANGED <<submit_attempt, submit_waits, now>>
    /\ UNCHANGED <<unitVars, concVars, serverVars, inputVars, start_time, llmVars, job_id, pollVars, storeVars,
                   endVars>>

\* Mutant: tenacity retries generate_video although the request succeeded.
SubmitRequestOk_RetriesOnSuccess ==
    /\ pc = "submit"
    /\ submit_requests' = submit_requests + 1
    /\ \E id \in JobIds : job_id' = <<id>>
    /\ IF submit_attempt < stop_after_attempt
       THEN /\ submit_attempt' = submit_attempt + 1
            /\ UNCHANGED <<pc, attempts>>
       ELSE /\ attempts' = 0
            /\ pc' = "poll"
            /\ UNCHANGED submit_attempt
    /\ UNCHANGED <<unitVars, concVars, serverVars, inputVars, now, start_time, llmVars, submit_failed,
                   submit_waits, check_attempt, status_checks, status_requests, checked_ids, poll_sleeps,
                   seen, video_status, failed_status, storeVars, endVars, exc,
                   failed_step>>

\* videos.create answers with response.id: generate_video returns it, generate
\* assigns job_id (line 69) and calls poll_video_status, which sets attempts
\* to 0 (line 130).
SubmitRequestOk ==
    /\ pc = "submit"
    /\ submit_requests' = submit_requests + 1
    /\ \E id \in JobIds : job_id' = Some(id)
    /\ attempts' = 0
    /\ pc' = "poll"
    /\ UNCHANGED <<unitVars, concVars, serverVars, inputVars, now, start_time, llmVars, submit_attempt,
                   submit_failed, submit_waits, check_attempt, status_checks,
                   status_requests, checked_ids, poll_sleeps,
                   seen, video_status, failed_status, storeVars, endVars, exc,
                   failed_step>>

(***************************************************************************)
(* Step 3: VideoService.check_video_status and poll_video_status.          *)
(***************************************************************************)
\* str.lower() on the status strings a response may carry.
lower(raw) == IF raw = "COMPLETED" THEN "completed" ELSE raw

\* Mutant: a status outside the mapping counts as failed.
status_mapping_UnknownFails(raw) ==
    IF lower(raw) \in VideoStatusValues THEN lower(raw) ELSE "failed"

\* check_video_status, lines 83-90: status_mapping.get(response.status.lower(),
\* VideoStatus.QUEUED).
status_mapping(raw) ==
    IF lower(raw) \in VideoStatusValues THEN lower(raw) ELSE "queued"

\* Mutant: every status carries the download marker.
video_url_of_Always(id, status) == <<"completed:" \o id>>

\* check_video_status, lines 94-96: the download marker of a completed job.
video_url_of(id, status) ==
    IF status = "completed" THEN Some("completed:" \o id) ELSE None

\* check_video_status, lines 98-104: the VideoJobStatus built from a response.
VideoJobStatus(id, response) ==
    [job_id |-> id,
     status |-> status_mapping(response.status),
     video_url |-> video_url_of(id, status_mapping(response.status)),
     progress |-> response.progress,
     error |-> response.error]

\* Mutant: the loop test lets one attempt too many through.
BudgetLeft_OffByOne(n) == n <= max_poll_attempts

\* poll_video_status, line 134: the while condition.
BudgetLeft(n) == n < max_poll_attempts

\* Mutant: a status that reports progress counts as completed.
IsCompleted_OrProgress(status) ==
    status.status = "completed" \/ status.progress # <<>>

\* poll_video_status, line 140.
IsCompleted(status) == status.status = "completed"
\* poll_video_status, line 144.
IsFailed(status) == status.status = "failed"

\* Mutant: the collaborator's error text is dropped.
error_msg_Placeholder(status) == "Unknown error"

\* poll_video_status, line 145: status.error or "Unknown error".
error_msg(status) ==
    IF IsNone(status.error) \/ status.error = Some("")
    THEN "Unknown error"
    ELSE Get(status.error)

\* poll_video_status, line 147.
RenderFailed(status) ==
    Exc("RuntimeError", "Video generation failed: " \o error_msg(status))

\* Mutant: budget exhaustion raises the wrong exception class.
TimedOut_WrongKind == [kind |-> "RuntimeError", msg |-> "Video generation timed out"]

\* poll_video_status, line 164.
TimedOut == Exc("TimeoutError", "Video generation timed out")

\* Mutant: a check error is never re-raised; the loop sleeps and goes on.
CheckErrorPropagates_Never(n) == FALSE

\* Mutant: a check error is re-raised on whatever attempt it happens.
CheckErrorPropagates_Always(n) == TRUE

\* poll_video_status, line 160: a check error is re-raised on this attempt.
CheckErrorPropagates(n) == n >= max_poll_attempts

\* poll_video_status, lines 154 and 162: time.sleep(poll_interval).
Sleep ==
    /\ poll_sleeps' = poll_sleeps + 1
    /\ now' = now + poll_interval_seconds

\* poll_video_status, lines 134-138 and 164: the loop test.  With budget left
\* the attempt is counted and check_video_status is called (first attempt);
\* otherwise TimeoutError is raised.
PollLoopHead ==
    /\ pc = "poll"
    /\ IF BudgetLeft(attempts)
       THEN /\ attempts' = attempts + 1
            /\ status_checks' = status_checks + 1
            /\ check_attempt' = 1
            /\ pc' = "check"
            /\ UNCHANGED <<exc, failed_step>>
       ELSE /\ Raise(TimedOut, "poll")
            /\ UNCHANGED <<attempts, status_checks, check_attempt>>
    /\ UNCHANGED <<unitVars, concVars, serverVars, inputVars, now, start_time, llmVars, submitVars,
                   status_requests, checked_ids, poll_sleeps, seen, video_status,
                   failed_status, storeVars, endVars>>

\* Mutant: a check error with budget left submits the job again.
OnCheckError_Resubmit(e) ==
    IF attempts >= max_poll_attempts
    THEN /\ exc' = <<e>>
         /\ failed_step' = "poll"
         /\ pc' = "except"
         /\ UNCHANGED <<now, poll_sleeps>>
    ELSE /\ poll_sleeps' = poll_sleeps + 1
         /\ now' = now + poll_interval_seconds
         /\ pc' = "submit"
         /\ UNCHANGED <<exc, failed_step>>

\* poll_video_status, lines 158-162: check_video_status raised.  The error
\* is re-raised when the budget is used up; otherwise sleep and loop.
OnCheckError(e) ==
    IF CheckErrorPropagates(attempts)
    THEN /\ Raise(e, "poll")
         /\ UNCHANGED <<now, poll_sleeps>>
    ELSE /\ Sleep
         /\ pc' = "poll"
         /\ UNCHANGED <<exc, failed_step>>

\* Mutant: no sleep after the check of the last budgeted attempt.
OnStatus_NoSleepOnLast(status) ==
    IF IsCompleted(status)
    THEN /\ video_status' = Some(status)
         /\ pc' = "finalize"
         /\ UNCHANGED <<exc, failed_step, failed_status, now, poll_sleeps>>
    ELSE IF IsFailed(status)
    THEN /\ Raise(RenderFailed(status), "poll")
         /\ failed_status' = Some(status)
         /\ UNCHANGED <<video_status, now, poll_sleeps>>
    ELSE /\ IF attempts < max_poll_attempts
            THEN Sleep
            ELSE UNCHANGED <<now, poll_sleeps>>
         /\ pc' = "poll"
         /\ UNCHANGED <<video_status, failed_status, exc, failed_step>>

\* Mutant: the sleep comes before the status is looked at.
OnStatus_SleepsFirst(status) ==
    /\ poll_sleeps' = poll_sleeps + 1
    /\ now' = now + poll_interval_seconds
    /\ IF status.status = "completed"
       THEN /\ video_status' = <<status>>
            /\ pc' = "finalize"
            /\ UNCHANGED <<exc, failed_step, failed_status>>
       ELSE IF status.status = "failed"
       THEN /\ exc' = <<[kind |-> "RuntimeError",
                         msg |-> "Video generation failed: "
                                 \o (IF status.error \in {<<>>, <<"">>}
                                     THEN "Unknown error"
                                     ELSE status.error[1])]>>
            /\ failed_step' = "poll"
            /\ pc' = "except"
            /\ failed_status' = <<status>>
            /\ UNCHANGED video_status
       ELSE /\ pc' = "poll"
            /\ UNCHANGED <<video_status, failed_status, exc, failed_step>>

\* poll_video_status, lines 140-154: check_video_status returned status.
\* Return it when completed, raise RuntimeError when failed, otherwise sleep
\* and loop.
OnStatus(status) ==
    IF IsCompleted(status)
    THEN /\ video_status' = Some(status)
         /\ pc' = "finalize"
         /\ UNCHANGED <<exc, failed_step, failed_status, now, poll_sleeps>>
    ELSE IF IsFailed(status)
    THEN /\ Raise(RenderFailed(status), "poll")
         /\ failed_status' = Some(status)
         /\ UNCHANGED <<video_status, now, poll_sleeps>>
    ELSE /\ Sleep
         /\ pc' = "poll"
         /\ UNCHANGED <<video_status, failed_status, exc, failed_step>>

\* videos.retrieve raises: logged and re-raised (lines 110-112).  tenacity
\* waits and tries again; after the third attempt it raises RetryError, which
\* poll_video_status catches at line 158.
StatusRequestFail ==
    /\ pc = "check"
    /\ status_requests' = status_requests + 1
    /\ checked_ids' = checked_ids \cup {Get(job_id)}
    /\ IF RetryAgain(check_attempt)
       THEN /\ check_attempt' = check_attempt + 1
            /\ now' = now + check_backoff(check_attempt)
            /\ UNCHANGED <<pc, exc, failed_step, seen, poll_sleeps>>
       ELSE /\ seen' = Append(seen, "error")
            /\ OnCheckError(RetryError(APIError))
            /\ UNCHANGED check_attempt
    /\ UNCHANGED <<unitVars, concVars, serverVars, inputVars, start_time, llmVars, submitVars, attempts,
                   status_checks, video_status, failed_status, storeVars,
                   endVars>>

\* videos.retrieve answers: check_video_status returns the VideoJobStatus and
\* poll_video_status acts on it.
CheckReturns(response) ==
    /\ pc = "check"
    /\ status_requests' = status_requests + 1
    /\ checked_ids' = checked_ids \cup {Get(job_id)}
    /\ LET status == VideoJobStatus(Get(job_id), response) IN
         /\ seen' = Append(seen, status.status)
         /\ OnStatus(status)
    /\ UNCHANGED <<concVars, serverVars, inputVars, start_time, llmVars,
                   submitVars, attempts, check_attempt, status_checks,
                   storeVars, endVars>>

StatusRequestOk ==
    /\ \E response \in StatusResponses : CheckReturns(response)
    /\ UNCHANGED unitVars

(***************************************************************************)
(* StorageService.                                                         *)
(***************************************************************************)
\* datetime fields are written as ISO-8601 strings by model_dump_json.
IsoFormat(t) == <<"iso", t>>

\* VideoResult.model_dump_json: the JSON object written to metadata.json.
model_dump_json(r) ==
    [job_id |-> r.job_id, topic |-> r.topic, script |-> r.script,
     sora_prompt |-> r.sora_prompt, video_url |-> r.video_url,
     metadata |-> r.metadata, status |-> r.status,
     created_at |-> IsoFormat(r.created_at),
     completed_at |-> IsoFormat(r.completed_at),
     error |-> r.error]

\* _save_local, line 78: result.video_url.startswith("completed:").
IsDownloadMarker(r) == r.video_url = "completed:" \o r.job_id

\* Mutant: _save_local fetches the content whatever the flag says.
WantsDownload_IgnoresFlag(r, download) == r.video_url # ""

\* _save_local, line 74: download_video and result.video_url.
WantsDownload(r, download) == download /\ r.video_url # ""

\* store_result raises when mkdir / write_text of _save_local fails; _save_s3
\* only logs and returns.
StoreRaises(w) == storage_type = "local" /\ w # "ok"

\* Mutant: the metadata file is written even when store_result raises.
Writes_EvenWhenRaising(w) == storage_type = "local"

\* _save_local, line 71: write_text put metadata.json in place; _save_s3
\* (lines 95-117) writes nothing.
Writes(w) == storage_type = "local" /\ w = "ok"

\* Mutant: the job directory is named after the topic.
StorageKey_Topic(r) == r.topic

\* _save_local, line 66: job_dir = self.storage_path / result.job_id.
StorageKey(r) == r.job_id

\* How a call of download_video_content ends: content fetched and written,
\* videos.download_content raises, or the write to the opened file raises.
DownloadOutcomes == {"ok", "fetch_error", "write_error"}

\* download_video_content(job_id, output_path), lines 177-188, on the
\* video files fs: the content is fetched first (line 179); only then is
\* output_path opened for writing, which creates the file, and written
\* (lines 182-183).  A failed fetch leaves fs alone, a failed write leaves
\* the file it opened.
download_video_content(fs, id, dl) ==
    IF dl = "fetch_error"
    THEN fs
    ELSE [j \in DOMAIN fs \cup {id} |->
            IF j = id THEN (IF dl = "ok" THEN "whole" ELSE "truncated")
            ELSE fs[j]]

\* Mutant: _save_local fetches the content of every record it writes.
StoreResult_AlwaysDownloads(r, download, w, dl) ==
    /\ store_calls' = store_calls + 1
    /\ store_log' = Append(store_log, [record |-> r, download |-> download,
                                       raised |-> StoreRaises(w),
                                       wrote |-> Writes(w)])
    /\ IF Writes(w)
       THEN /\ storage' = [j \in DOMAIN storage \cup {r.job_id} |->
                             IF j = r.job_id THEN model_dump_json(r)
                             ELSE storage[j]]
            /\ downloads' = Append(downloads, r.job_id)
            /\ files' = download_video_content(files, r.job_id, dl)
       ELSE UNCHANGED <<storage, downloads, files>>

\* store_result(result, download_video, video_service): _save_local writes
\* metadata.json into the job directory and then, when asked to and the record
\* carries the download marker, calls download_video_content, whose failure is
\* logged and swallowed (lines 76-90); _save_s3 writes nothing.
StoreResult(r, download, w, dl) ==
    /\ store_calls' = store_calls + 1
    /\ store_log' = Append(store_log, [record |-> r, download |-> download,
                                       raised |-> StoreRaises(w),
                                       wrote |-> Writes(w)])
    /\ IF Writes(w)
       THEN /\ storage' = [j \in DOMAIN storage \cup {StorageKey(r)} |->
                             IF j = StorageKey(r) THEN model_dump_json(r)
                             ELSE storage[j]]
            /\ IF WantsDownload(r, download) /\ IsDownloadMarker(r)
               THEN /\ downloads' = Append(downloads, r.job_id)
                    /\ files' = download_video_content(files, r.job_id, dl)
               ELSE UNCHANGED <<downloads, files>>
       ELSE UNCHANGED <<storage, downloads, files>>

\* pydantic parses an ISO-8601 string back into the datetime it was written
\* from.
IsoParse(x) == x[2]

\* load_result, line 165: VideoResult(**data) built from the parsed JSON.
VideoResult(data) ==
    [job_id |-> data.job_id, topic |-> data.topic, script |-> data.script,
     sora_prompt |-> data.sora_prompt, video_url |-> data.video_url,
     metadata |-> data.metadata, status |-> data.status,
     created_at |-> IsoParse(data.created_at),
     completed_at |-> IsoParse(data.completed_at),
     error |-> data.error]

\* load_result, lines 163-165: read_text, json.loads and VideoResult(**data)
\* on a metadata.json that may be unreadable, not JSON, or JSON that does
\* not validate; gives the record or the exception raised.
read_metadata(file) ==
    IF ~file.readable
    THEN [value |-> None, error |-> Some(Exc("PermissionError", "EACCES"))]
    ELSE IF ~file.parses
    THEN [value |-> None,
          error |-> Some(Exc("JSONDecodeError", "Expecting value"))]
    ELSE IF ~file.validates
    THEN [value |-> None,
          error |-> Some(Exc("ValidationError",
                             "validation error for VideoResult"))]
    ELSE [value |-> Some(VideoResult(file.data)), error |-> None]

\* Mutant: the except clause of load_result lets the exception through.
load_except_Propagates(inner) ==
    [value |-> inner.value, raised |-> inner.error]

\* load_result, lines 159-171: the try block returned a value, or raised
\* and the except clause logged the error and returned None.
load_except(inner) ==
    [value |-> IF inner.error = None THEN inner.value ELSE None,
     raised |-> None]

\* load_result(job_id) of a StorageService of type st over the job
\* directories dir: only local storage is read; any other storage type, or
\* a missing metadata.json, gives None.
load_result_from(st, dir, id) ==
    load_except(IF st = "local" /\ id \in DOMAIN dir
                THEN read_metadata(dir[id])
                ELSE [value |-> None, error |-> None])

\* A metadata.json as write_text left it.
Intact(json) ==
    [readable |-> TRUE, parses |-> TRUE, validates |-> TRUE, data |-> json]

\* load_result(job_id) of this pipeline's storage service.
load_result(id) ==
    load_result_from(storage_type,
                     [j \in DOMAIN storage |-> Intact(storage[j])], id).value

(***************************************************************************)
(* Step 4 and the except block of generate.                                *)
(***************************************************************************)
\* Mutant: the two timestamps of the completed record are swapped.
CompletedResult_SwappedTimes(id, script, status, created, completed) ==
    [job_id |-> id, topic |-> Topic, script |-> script.script,
     sora_prompt |-> script.sora_prompt, video_url |-> status.video_url[1],
     metadata |-> script.metadata, status |-> "completed",
     created_at |-> completed, completed_at |-> created, error |-> <<>>]

\* generate, lines 88-98: the record of the success path.
CompletedResult(id, script, status, created, completed) ==
    [job_id |-> id, topic |-> Topic, script |-> script.script,
     sora_prompt |-> script.sora_prompt, video_url |-> Get(status.video_url),
     metadata |-> script.metadata, status |-> "completed",
     created_at |-> created, completed_at |-> completed, error |-> None]

\* Mutant: the failed record never carries the assigned identifier.
FailedJobId_AlwaysUnknown(id) == "unknown"

\* generate, line 119: job_id or "unknown".
FailedJobId(id) == IF IsNone(id) THEN "unknown" ELSE Get(id)

\* generate, line 125: duration or settings.default_video_duration.
FailedDuration(d) ==
    IF IsNone(d) \/ d = Some(0) THEN default_video_duration ELSE Get(d)

\* generate, lines 118-134: the record of the failure path.
FailedResult(id, d, e, created, completed) ==
    [job_id |-> FailedJobId(id), topic |-> Topic, script |-> "",
     sora_prompt |-> "", video_url |-> "",
     metadata |-> [duration |-> FailedDuration(d), tone |-> "unknown",
                   hashtags |-> <<>>, target_audience |-> "unknown"],
     status |-> "failed", created_at |-> created, completed_at |-> completed,
     error |-> Some(Str(e))]

\* Mutant: an error of the failure-path store replaces the original one.
Reraised_Secondary(original, swallowed) ==
    IF swallowed = <<>> THEN original ELSE swallowed[1]

\* generate, line 146: the bare raise re-raises the exception the except
\* block is handling, whatever the inner try swallowed.
Reraised(original, swallowed) == original

\* Mutant: the failure-path store is given the caller's download flag.
FailureDownload_PassThrough == download_video

\* generate, line 140: download_video=False on the failure path.
FailureDownload == FALSE

\* Mutant: a storage error of the success path is swallowed and the record
\* returned.
Finalize_SwallowsStoreError ==
    /\ pc = "finalize"
    /\ LET vs == Get(video_status) IN
       IF IsNone(vs.video_url) \/ vs.video_url = Some("")
       THEN /\ Raise(Exc("RuntimeError", "Video completed but no URL returned"),
                     "finalize")
            /\ UNCHANGED <<storeVars, endVars>>
       ELSE LET r == CompletedResult(Get(job_id), Get(script_data), vs,
                                     start_time, now) IN
            /\ result' = Some(r)
            /\ results_built' = results_built + 1
            /\ IF store_result
               THEN \E w \in WriteOutcomes, dl \in DownloadOutcomes :
                      StoreResult(r, download_video, w, dl)
               ELSE UNCHANGED storeVars
            /\ returned' = Some(r)
            /\ pc' = "done"
            /\ UNCHANGED <<exc, failed_step, raised, store_errors>>
    /\ UNCHANGED <<unitVars, concVars, serverVars, inputVars, now, start_time,
                   llmVars, submitVars, pollVars>>

\* generate, lines 81-112: poll_video_status returned.  Check the URL, build
\* the completed record and, when asked to, store it; a storage error leaves
\* the try block, otherwise the record is returned.
Finalize ==
    /\ pc = "finalize"
    /\ LET vs == Get(video_status) IN
       IF IsNone(vs.video_url) \/ vs.video_url = Some("")
       THEN /\ Raise(Exc("RuntimeError", "Video completed but no URL returned"),
                     "finalize")
            /\ UNCHANGED <<storeVars, endVars>>
       ELSE LET r == CompletedResult(Get(job_id), Get(script_data), vs,
                                     start_time, now) IN
            /\ result' = Some(r)
            /\ results_built' = results_built + 1
            /\ IF store_result
               THEN \E w \in WriteOutcomes, dl \in DownloadOutcomes :
                      /\ StoreResult(r, download_video, w, dl)
                      /\ IF StoreRaises(w)
                         THEN /\ Raise(StorageError(w), "store")
                              /\ UNCHANGED <<returned, raised>>
                         ELSE /\ returned' = Some(r)
                              /\ pc' = "done"
                              /\ UNCHANGED <<exc, failed_step, raised>>
               ELSE /\ returned' = Some(r)
                    /\ pc' = "done"
                    /\ UNCHANGED <<storeVars, exc, failed_step, raised>>
            /\ UNCHANGED store_errors
    /\ UNCHANGED <<unitVars, concVars, serverVars, inputVars, now, start_time, llmVars, submitVars, pollVars>>

\* generate, lines 114-146: the except block.  Build the failed record, offer
\* it to storage with download disabled, swallow whatever that raises, and
\* re-raise.
ExceptHandler ==
    /\ pc = "except"
    /\ LET r == FailedResult(job_id, duration, Get(exc), start_time, now) IN
       /\ result' = Some(r)
       /\ results_built' = results_built + 1
       /\ IF store_result
          THEN \E w \in WriteOutcomes :
                 /\ StoreResult(r, FailureDownload, w, "fetch_error")
                 /\ store_errors' = IF StoreRaises(w)
                                    THEN Append(store_errors, StorageError(w))
                                    ELSE store_errors
                 /\ raised' = Some(Reraised(Get(exc),
                                            IF StoreRaises(w)
                                            THEN Some(StorageError(w))
                                            ELSE None))
          ELSE /\ raised' = Some(Reraised(Get(exc), None))
               /\ UNCHANGED storeVars
    /\ pc' = "done"
    /\ UNCHANGED <<unitVars, concVars, serverVars, inputVars, now, start_time, llmVars, submitVars, pollVars,
                   exc, failed_step, returned>>

Next ==
    \/ Generate
    \/ LLMRequestFail
    \/ LLMRequestOk
    \/ SubmitRequestFail
    \/ SubmitRequestOk
    \/ PollLoopHead
    \/ StatusRequestFail
    \/ StatusRequestOk
    \/ Finalize
    \/ ExceptHandler

Spec == Init /\ [][Next]_vars

(***************************************************************************)
(* api.py: the FastAPI application served by one uvicorn process.  Handlers *)
(* declared async def run on the event loop, one at a time, and give it up *)
(* only at an await; a plain function handed to BackgroundTasks runs in a  *)
(* worker thread after the response was sent.                              *)
(***************************************************************************)
pipelineVars == <<pc, inputVars, now, start_time, llmVars, submitVars,
                  pollVars, storeVars, endVars, exc, failed_step>>

\* Status codes of POST /api/v1/videos: the result, or the HTTPException of
\* lines 96-104.
GenerateResponses == {200, 400, 500, 504}

\* Mutant: no exception class has a base class other than Exception.
Bases_Flat(kind) == {kind, "Exception"}

\* The classes an exception of each kind is an instance of: TimeoutError is
\* an OSError, pydantic's ValidationError is a ValueError.
Bases(kind) ==
    CASE kind = "TimeoutError" -> {"TimeoutError", "OSError", "Exception"}
      [] kind = "ValidationError" ->
            {"ValidationError", "ValueError", "Exception"}
      [] OTHER -> {kind, "Exception"}

\* generate_video, lines 84-104: the response to what pipeline.generate
\* returned or raised; the except clauses are tried in order.
generate_video_response(ret, err) ==
    IF ret # None
    THEN [status_code |-> 200, body |-> ret, detail |-> ""]
    ELSE IF "TimeoutError" \in Bases(Get(err).kind)
    THEN [status_code |-> 504, body |-> None, detail |-> Str(Get(err))]
    ELSE IF "ValueError" \in Bases(Get(err).kind)
    THEN [status_code |-> 400, body |-> None, detail |-> Str(Get(err))]
    ELSE IF "Exception" \in Bases(Get(err).kind)
    THEN [status_code |-> 500, body |-> None,
          detail |-> "Internal server error: " \o Str(Get(err))]
    ELSE [status_code |-> 0, body |-> None, detail |-> ""]

\* A client sends request r; it waits for the event loop.
Arrive(r) ==
    /\ request_state[r] = "idle"
    /\ request_state' = [request_state EXCEPT ![r] = "waiting"]
    /\ UNCHANGED <<event_loop, sleeps_left, background_tasks, responses,
                   pipelineVars, concVars, unitVars, async_jobs>>

\* health_check, lines 61-68: runs to its return without awaiting.
HealthCheck(r) ==
    /\ Route(r) = "/health"
    /\ request_state[r] = "waiting"
    /\ event_loop = None
    /\ request_state' = [request_state EXCEPT ![r] = "responded"]
    /\ responses' = [responses EXCEPT ![r] = 200]
    /\ UNCHANGED <<event_loop, sleeps_left, background_tasks, pipelineVars, concVars, unitVars, async_jobs>>

\* generate_video, lines 71-87: the handler starts on the event loop and
\* calls pipeline.generate directly.  The call makes some number of
\* time.sleep calls (retry backoff, poll interval) before it ends.
StartGenerate(r) ==
    /\ Route(r) = "/api/v1/videos"
    /\ request_state[r] = "waiting"
    /\ event_loop = None
    /\ event_loop' = Some(r)
    /\ request_state' = [request_state EXCEPT ![r] = "running"]
    /\ \E n \in 0..max_poll_attempts :
         sleeps_left' = [sleeps_left EXCEPT ![r] = n]
    /\ UNCHANGED <<background_tasks, responses, pipelineVars, concVars, unitVars, async_jobs>>

\* pipeline.generate reaches time.sleep (video_service.py, lines 149-162, or
\* tenacity's wait): the calling thread is suspended, and with it the event
\* loop the handler runs on.
GenerateSleep(r) ==
    /\ request_state[r] = "running"
    /\ sleeps_left[r] > 0
    /\ request_state' = [request_state EXCEPT ![r] = "sleeping"]
    /\ UNCHANGED <<event_loop, sleeps_left, background_tasks, responses,
                   pipelineVars, concVars, unitVars, async_jobs>>

\* time.sleep returns.
GenerateWake(r) ==
    /\ request_state[r] = "sleeping"
    /\ request_state' = [request_state EXCEPT ![r] = "running"]
    /\ sleeps_left' = [sleeps_left EXCEPT ![r] = @ - 1]
    /\ UNCHANGED <<event_loop, background_tasks, responses, pipelineVars, concVars, unitVars, async_jobs>>

\* generate_video, lines 94-104: pipeline.generate returned or raised; the
\* handler answers and leaves the event loop.
GenerateRespond(r) ==
    /\ request_state[r] = "running"
    /\ sleeps_left[r] = 0
    /\ request_state' = [request_state EXCEPT ![r] = "responded"]
    /\ \E code \in GenerateResponses :
         responses' = [responses EXCEPT ![r] = code]
    /\ event_loop' = None
    /\ UNCHANGED <<sleeps_left, background_tasks, pipelineVars, concVars, unitVars, async_jobs>>

\* generate_video_async, lines 107-139: registers generate_in_background and
\* answers with the queued job at once.
AsyncAccept(r) ==
    /\ Route(r) = "/api/v1/videos/async"
    /\ request_state[r] = "waiting"
    /\ event_loop = None
    /\ request_state' = [request_state EXCEPT ![r] = "responded"]
    /\ responses' = [responses EXCEPT ![r] = 200]
    /\ background_tasks' = [background_tasks EXCEPT ![r] = "queued"]
    /\ \E id \in ApiJobIds :
         async_jobs' = [async_jobs EXCEPT ![r].job_id = Some(id)]
    /\ UNCHANGED <<event_loop, sleeps_left, pipelineVars, concVars, unitVars>>

\* generate_in_background, lines 122-131, starts in a worker thread.
BackgroundStart(r) ==
    /\ background_tasks[r] = "queued"
    /\ background_tasks' = [background_tasks EXCEPT ![r] = "running"]
    /\ \E n \in 0..max_poll_attempts :
         sleeps_left' = [sleeps_left EXCEPT ![r] = n]
    /\ UNCHANGED <<event_loop, request_state, responses, pipelineVars, concVars, unitVars, async_jobs>>

\* time.sleep in the worker thread suspends that thread only.
BackgroundSleep(r) ==
    /\ background_tasks[r] = "running"
    /\ sleeps_left[r] > 0
    /\ background_tasks' = [background_tasks EXCEPT ![r] = "sleeping"]
    /\ UNCHANGED <<event_loop, request_state, sleeps_left, responses,
                   pipelineVars, concVars, unitVars, async_jobs>>

BackgroundWake(r) ==
    /\ background_tasks[r] = "sleeping"
    /\ background_tasks' = [background_tasks EXCEPT ![r] = "running"]
    /\ sleeps_left' = [sleeps_left EXCEPT ![r] = @ - 1]
    /\ UNCHANGED <<event_loop, request_state, responses, pipelineVars, concVars, unitVars, async_jobs>>

\* generate_in_background returns; its exception, if any, was logged.  The
\* generate it ran stored its record under the identifier the rendering
\* collaborator assigned, or under "unknown" when none was assigned.
BackgroundFinish(r) ==
    /\ background_tasks[r] = "running"
    /\ sleeps_left[r] = 0
    /\ background_tasks' = [background_tasks EXCEPT ![r] = "finished"]
    /\ \E id \in {None} \cup {Some(j) : j \in JobIds} :
         async_jobs' = [async_jobs EXCEPT ![r].stored_as = Some(FailedJobId(id))]
    /\ UNCHANGED <<event_loop, request_state, sleeps_left, responses,
                   pipelineVars, concVars, unitVars>>

\* The event loop takes up a waiting request.
Serve(r) == HealthCheck(r) \/ StartGenerate(r) \/ AsyncAccept(r)

\* The endpoints call generate with store_result=True, download_video=True
\* (lines 87-92 and 124-129).
ServerInit == Init /\ store_result /\ download_video

ServerNext ==
    \E r \in Requests :
        \/ Arrive(r)
        \/ HealthCheck(r)
        \/ StartGenerate(r)
        \/ GenerateSleep(r)
        \/ GenerateWake(r)
        \/ GenerateRespond(r)
        \/ AsyncAccept(r)
        \/ BackgroundStart(r)
        \/ BackgroundSleep(r)
        \/ BackgroundWake(r)
        \/ BackgroundFinish(r)

ServerSpec == ServerInit /\ [][ServerNext]_vars

(***************************************************************************)
(* Several generate calls in one process (worker threads of the API, or    *)
(* callers of the library), each following pipeline.generate and sharing   *)
(* only the storage directory of StorageService.                           *)
(***************************************************************************)
\* Identifiers the rendering collaborator has handed out so far.
AssignedJobIds == {Get(inv_job_id[i]) : i \in {j \in Invocations :
                                                  inv_job_id[j] # None}}

\* _save_local, lines 65-71: metadata.json of directory key is written by
\* invocation i.
WriteMetadata(key, i, status) ==
    job_dirs' = [k \in DOMAIN job_dirs \cup {key} |->
                   IF k = key
                   THEN (IF k \in DOMAIN job_dirs THEN job_dirs[k] ELSE <<>>)
                           \o <<[by |-> i, status |-> status]>>
                   ELSE job_dirs[k]]

\* generate, lines 61-73 and 114: generate_script or generate_video raised;
\* job_id is still None.
InvFailsEarly(i) ==
    /\ inv_pc[i] = "start"
    /\ inv_pc' = [inv_pc EXCEPT ![i] = "except"]
    /\ UNCHANGED <<inv_job_id, job_dirs, pipelineVars, serverVars, unitVars>>

\* generate, lines 69-73: generate_video returned an identifier no other
\* render task has.
InvSubmitted(i) ==
    /\ inv_pc[i] = "start"
    /\ \E id \in JobIds \ AssignedJobIds :
         inv_job_id' = [inv_job_id EXCEPT ![i] = Some(id)]
    /\ inv_pc' = [inv_pc EXCEPT ![i] = "poll"]
    /\ UNCHANGED <<job_dirs, pipelineVars, serverVars, unitVars>>

\* generate, line 79: poll_video_status returned a completed status.
InvPollReturns(i) ==
    /\ inv_pc[i] = "poll"
    /\ inv_pc' = [inv_pc EXCEPT ![i] = "finalize"]
    /\ UNCHANGED <<inv_job_id, job_dirs, pipelineVars, serverVars, unitVars>>

\* generate, lines 79 and 114: poll_video_status raised.
InvPollRaises(i) ==
    /\ inv_pc[i] = "poll"
    /\ inv_pc' = [inv_pc EXCEPT ![i] = "except"]
    /\ UNCHANGED <<inv_job_id, job_dirs, pipelineVars, serverVars, unitVars>>

\* generate, lines 88-112: the completed record is stored under its job_id.
InvStoreCompleted(i) ==
    /\ inv_pc[i] = "finalize"
    /\ WriteMetadata(Get(inv_job_id[i]), i, "completed")
    /\ inv_pc' = [inv_pc EXCEPT ![i] = "done"]
    /\ UNCHANGED <<inv_job_id, pipelineVars, serverVars, unitVars>>

\* generate, lines 118-146: the failed record is stored under
\* job_id or "unknown".
InvStoreFailed(i) ==
    /\ inv_pc[i] = "except"
    /\ WriteMetadata(FailedJobId(inv_job_id[i]), i, "failed")
    /\ inv_pc' = [inv_pc EXCEPT ![i] = "done"]
    /\ UNCHANGED <<inv_job_id, pipelineVars, serverVars, unitVars>>

ConcurrentNext ==
    \E i \in Invocations :
        \/ InvFailsEarly(i)
        \/ InvSubmitted(i)
        \/ InvPollReturns(i)
        \/ InvPollRaises(i)
        \/ InvStoreCompleted(i)
        \/ InvStoreFailed(i)

\* The library default and the API both store results on local storage.
ConcurrentInit ==
    Init /\ storage_type = "local" /\ store_result /\ download_video

ConcurrentSpec == ConcurrentInit /\ [][ConcurrentNext]_vars

(***************************************************************************)
(* generate_script and check_video_status as functions of what the         *)
(* collaborator sent, over every shape of reply and response.              *)
(***************************************************************************)
\* Values the script collaborator may put in metadata.duration, and the
\* hashtag lists it may send.
ReplyDurations == {None, Some(0 - 5), Some(0), Some(8)}
ReplyHashtags == {None, Some(<<>>), Some(<<"#sleep", "#app">>)}

\* Reply texts of the script collaborator: text that is not JSON, and JSON
\* objects in which any key may be missing.
NotJson ==
    [parses |-> FALSE, script |-> None, sora_prompt |-> None,
     has_metadata |-> FALSE, duration |-> None, tone |-> None,
     hashtags |-> None, target_audience |-> None]
Replies ==
    {NotJson} \cup
    [parses : {TRUE}, script : {None, Some("I tried this app and...")},
     sora_prompt : {None, Some("A parent films...")},
     has_metadata : BOOLEAN, duration : ReplyDurations,
     tone : {None, Some("calm")}, hashtags : ReplyHashtags,
     target_audience : {None, Some("parents")}]

\* ScriptMetadata(**response_data["metadata"]), models.py lines 17-22: the
\* four fields are required; duration is an int without further constraint.
MetadataValidates(reply) ==
    /\ reply.duration # None
    /\ reply.tone # None
    /\ reply.hashtags # None
    /\ reply.target_audience # None

\* generate_script, lines 78-101, applied to a reply text: the artifact, or
\* the exception raised.
generate_script(reply) ==
    IF ~reply.parses
    THEN [value |-> None,
          error |-> Some(Exc("ValueError",
                             "Invalid JSON response from LLM: Expecting value"))]
    ELSE IF reply.script = None
    THEN [value |-> None,
          error |-> Some(Exc("ValueError",
                             "LLM response missing required field: 'script'"))]
    ELSE IF reply.sora_prompt = None
    THEN [value |-> None,
          error |-> Some(Exc("ValueError",
                        "LLM response missing required field: 'sora_prompt'"))]
    ELSE IF ~reply.has_metadata
    THEN [value |-> None,
          error |-> Some(Exc("ValueError",
                          "LLM response missing required field: 'metadata'"))]
    ELSE IF ~MetadataValidates(reply)
    THEN [value |-> None,
          error |-> Some(Exc("ValidationError",
                             "validation error for ScriptMetadata"))]
    ELSE [value |-> Some([script |-> Get(reply.script),
                          sora_prompt |-> Get(reply.sora_prompt),
                          metadata |->
                             [duration |-> Get(reply.duration),
                              tone |-> Get(reply.tone),
                              hashtags |-> Get(reply.hashtags),
                              target_audience |->
                                 Get(reply.target_audience)]]),
          error |-> None]

\* Each function is exercised on its own.
ScriptIdle == script_result = None /\ submitted = None
StatusIdle == status_result = None
LoadIdle == DOMAIN disk = {} /\ load_outcome = None

\* generate_script is called and the collaborator answers with some reply.
CallGenerateScript ==
    /\ StatusIdle /\ LoadIdle
    /\ script_result = None
    /\ \E reply \in Replies :
         script_result' = Some([reply |-> reply,
                                outcome |-> generate_script(reply)])
    /\ UNCHANGED <<submitted, status_result, disk, load_outcome,
                   raw_seen, gui, pipelineVars, serverVars, concVars>>

\* generate, lines 69-73: generate_script returned, so generate_video is
\* called with script_data.metadata.duration.
CallGenerateVideo ==
    /\ script_result # None
    /\ Get(script_result).outcome.value # None
    /\ submitted = None
    /\ submitted' =
          Some(Get(Get(script_result).outcome.value).metadata.duration)
    /\ UNCHANGED <<script_result, status_result, disk, load_outcome,
                   raw_seen, gui, pipelineVars, serverVars, concVars>>

\* check_video_status(job_id) is called and videos.retrieve answers with
\* some response.
CallCheckVideoStatus ==
    /\ ScriptIdle /\ LoadIdle
    /\ status_result = None
    /\ \E id \in JobIds :
       \E response \in [status : RawStatuses,
                        progress : ProgressValues \cup {Some(0), Some(100)},
                        error : ErrorValues] :
         status_result' = Some([response |-> response,
                                job_status |-> VideoJobStatus(id, response)])
    /\ UNCHANGED <<script_result, submitted, disk, load_outcome,
                   raw_seen, gui, pipelineVars, serverVars, concVars>>

\* Job directories a caller may ask load_result for.
StorageIds == JobIds \cup {"unknown"}

\* Records an earlier run may have stored: a completed one and a failed one.
StoredSamples ==
    {model_dump_json(
        CompletedResult("video_a", GeneratedScript("valid"),
                        VideoJobStatus("video_a",
                                       [status |-> "completed",
                                        progress |-> Some(100),
                                        error |-> None]), 0, 40)),
     model_dump_json(FailedResult(None, None, APIError, 0, 6))}

\* What a metadata.json in the storage directory may hold.
MetadataFiles ==
    [readable : BOOLEAN, parses : BOOLEAN, validates : BOOLEAN,
     data : StoredSamples]

\* A metadata.json is found in a job directory of the storage path (left by
\* an earlier run, or damaged since).
PutFile ==
    /\ ScriptIdle /\ StatusIdle
    /\ load_outcome = None
    /\ \E id \in {"video_a", "unknown"} \ DOMAIN disk :
       \E file \in MetadataFiles :
         disk' = [k \in DOMAIN disk \cup {id} |->
                    IF k = id THEN file ELSE disk[k]]
    /\ UNCHANGED <<script_result, submitted, status_result, load_outcome,
                   raw_seen, gui, pipelineVars, serverVars, concVars>>

\* load_result(job_id) is called on a storage service of either type.
CallLoadResult ==
    /\ ScriptIdle /\ StatusIdle
    /\ load_outcome = None
    /\ \E st \in StorageTypes : \E id \in StorageIds :
         load_outcome' = Some([storage_type |-> st, job_id |-> id,
                               outcome |-> load_result_from(st, disk, id)])
    /\ UNCHANGED <<script_result, submitted, status_result, disk,
                   raw_seen, gui, pipelineVars, serverVars, concVars>>

UnitNext ==
    \/ CallGenerateScript
    \/ CallGenerateVideo
    \/ CallCheckVideoStatus
    \/ PutFile
    \/ CallLoadResult

\* The functions are called by a pipeline with the default arguments.
UnitInit == Init /\ storage_type = "local" /\ store_result /\ download_video

UnitSpec == UnitInit /\ [][UnitNext]_vars

(***************************************************************************)
(* Properties.                                                             *)
(***************************************************************************)
Last(q) == q[Len(q)]
Terminal(x) == x \in {"completed", "failed"}
NoCheckErrors(q) == \A i \in 1..Len(q) : q[i] # "error"
OnlyNonTerminal(q) == \A i \in 1..Len(q) : q[i] \in {"queued", "in_progress"}
FirstTerminalAt(q, k) ==
    /\ k \in 1..Len(q)
    /\ Terminal(q[k])
    /\ \A i \in 1..(k - 1) : ~Terminal(q[i])
\* poll_video_status has ended: it returned or it raised.
PollReturned == video_status # None
PollRaised == failed_step = "poll"

\* C1: when no status check errors and the first terminal status is
\* 'completed' at the k-th check, poll_video_status has made exactly k status
\* checks and k-1 poll-interval sleeps, has returned that completed status
\* for the submitted job, and no check or sleep follows (the counts stay so
\* in every later state).
C1_CompletedAtKth ==
    \A k \in 1..max_poll_attempts :
        (NoCheckErrors(seen) /\ FirstTerminalAt(seen, k) /\ seen[k] = "completed")
        => /\ Len(seen) = k
           /\ status_checks = k
           /\ attempts = k
           /\ poll_sleeps = k - 1
           /\ PollReturned /\ ~PollRaised
           /\ Get(video_status).status = "completed"
           /\ Get(video_status).job_id = Get(job_id)
           /\ pc \in {"finalize", "except", "done"}

C1_Witness ==
    /\ pc = "done"
    /\ returned # None
    /\ seen = <<"queued", "in_progress", "completed">>
    /\ status_checks = 3
    /\ poll_sleeps = 2

\* C2: when every status check within the budget reports queued or
\* in_progress, poll_video_status raises TimeoutError after exactly
\* max_poll_attempts checks; no further check is made and no submit request
\* beyond the one that returned the job id.
C2_TimeoutAfterBudget ==
    (Len(seen) = max_poll_attempts /\ OnlyNonTerminal(seen))
    => /\ status_checks = max_poll_attempts
       /\ attempts = max_poll_attempts
       /\ submit_requests = submit_attempt
       /\ ~PollReturned
       /\ \/ pc = "poll" /\ exc = None
          \/ /\ pc \in {"except", "done"}
             /\ PollRaised
             /\ Get(exc).kind = "TimeoutError"
       /\ (pc = "done" => raised # None /\ Get(raised).kind = "TimeoutError")

C2_Witness ==
    /\ pc = "done"
    /\ Len(seen) = max_poll_attempts
    /\ OnlyNonTerminal(seen)
    /\ raised # None
    /\ Get(raised).kind = "TimeoutError"

\* C3: when a status check reports 'failed', poll_video_status raises the
\* render-failed error at once: its text carries the collaborator's error
\* text, or the placeholder when none is given, and the check that observed
\* 'failed' is the last check and is followed by no sleep.
C3_FailedIsImmediate ==
    (seen # <<>> /\ Last(seen) = "failed")
    => /\ failed_status # None
       /\ PollRaised /\ ~PollReturned
       /\ pc \in {"except", "done"}
       /\ Get(exc).kind = "RuntimeError"
       /\ Get(exc).msg =
            "Video generation failed: "
            \o (IF Get(failed_status).error \in {None, Some("")}
                THEN "Unknown error"
                ELSE Get(Get(failed_status).error))
       /\ status_checks = Len(seen)
       /\ attempts = Len(seen)
       /\ poll_sleeps = Len(seen) - 1
       /\ (pc = "done" => raised = exc)

C3_Witness ==
    /\ pc = "done"
    /\ seen = <<"queued", "failed">>
    /\ failed_status # None
    /\ Get(failed_status).error = Some("model overloaded")
    /\ Get(raised).msg = "Video generation failed: model overloaded"
    /\ poll_sleeps = 1

\* C4: a check error on a poll attempt before the last budgeted one never
\* ends poll_video_status (the driver sleeps and goes on with the remaining
\* budget); a check error leaves poll_video_status only on the attempt that
\* exhausts the budget.
C4_CheckErrorTolerated ==
    /\ (seen # <<>> /\ Last(seen) = "error" /\ Len(seen) < max_poll_attempts)
       => /\ pc \in {"poll", "check"}
          /\ exc = None
          /\ poll_sleeps = Len(seen)
          /\ attempts \in {Len(seen), Len(seen) + 1}
    /\ (PollRaised /\ Get(exc).kind = "RetryError")
       => /\ Len(seen) = max_poll_attempts
          /\ attempts = max_poll_attempts
          /\ Last(seen) = "error"

C4_Witness ==
    /\ pc = "done"
    /\ seen = <<"error", "error", "completed">>
    /\ returned # None

\* A measure of the work poll_video_status has left: attempts not yet made,
\* and within a check the tenacity attempts not yet made.
PollMeasure ==
    IF pc = "poll" THEN 5 * (max_poll_attempts - attempts) + 1
    ELSE IF pc = "check"
    THEN 5 * (max_poll_attempts - attempts) + 1 + (stop_after_attempt + 1 - check_attempt)
    ELSE 0
\* The poll stays within its budget and ends in exactly one outcome.
C5_Bounded ==
    /\ attempts <= max_poll_attempts
    /\ status_checks <= max_poll_attempts
    /\ Len(seen) <= max_poll_attempts
    /\ PollMeasure >= 0
    /\ (pc \in {"finalize", "except", "done"} /\ job_id # None)
       => /\ PollReturned # PollRaised
          /\ PollReturned => Get(video_status).status = "completed"
          /\ PollRaised => Get(exc).kind \in {"RuntimeError", "TimeoutError", "RetryError"}
\* Every step taken inside the poll uses up some of the measure.
C5_Decreases == pc \in {"poll", "check"} => (PollMeasure' < PollMeasure)

\* C5: poll_video_status never makes more than max_poll_attempts loop
\* iterations, every step inside it uses up a bounded measure (so it ends
\* whatever the collaborator answers), and it ends in exactly one of: a
\* returned completed status, the render-failed error, TimeoutError, or a
\* propagated check error.
C5_PollTerminates == []C5_Bounded /\ [][C5_Decreases]_vars

C5_Witness ==
    /\ pc = "done"
    /\ PollRaised
    /\ Get(raised).kind = "RetryError"
    /\ attempts = max_poll_attempts

\* C6: once generate_video has returned a job identifier, no further submit
\* request is made, whatever statuses and polling errors follow.
C6_NoResubmit ==
    [][job_id # None => submit_requests' = submit_requests /\ job_id' = job_id]_vars

C6_Witness ==
    /\ pc = "done"
    /\ job_id # None
    /\ \E i \in 1..Len(seen) : seen[i] = "error"
    /\ submit_requests = 2

\* What one step of generate may do, given the steps already taken.
C7_StepOrder ==
    /\ llm_calls' # llm_calls
       => /\ script_data = None
          /\ submit_requests = 0 /\ status_checks = 0 /\ status_requests = 0
          /\ results_built = 0 /\ store_calls = 0
    /\ submit_requests' # submit_requests
       => /\ script_data # None /\ job_id = None
          /\ status_checks = 0 /\ status_requests = 0
          /\ results_built = 0 /\ store_calls = 0
    /\ (status_checks' # status_checks \/ status_requests' # status_requests)
       => /\ script_data # None /\ job_id # None
          /\ results_built = 0 /\ store_calls = 0
    /\ (results_built' # results_built /\ Get(result').status = "completed")
       => /\ seen # <<>> /\ Last(seen) = "completed"
          /\ results_built = 0 /\ store_calls = 0
          /\ UNCHANGED <<llm_calls, submit_requests, status_checks, status_requests>>
    /\ store_calls' # store_calls
       => /\ results_built' >= 1
          /\ UNCHANGED <<llm_calls, submit_requests, status_checks, status_requests>>

\* C7: the steps of one generate invocation are strictly ordered.  A script
\* request is made only before any submit, check, record or store; a submit
\* request only after the script request succeeded and before any check; a
\* status check only after submit returned a job id; the completed record is
\* built and stored only after a check observed 'completed'; and no request
\* of an earlier step is made once a later step has started.
C7_StrictlyOrdered == [][C7_StepOrder]_vars

C7_Witness ==
    /\ pc = "done"
    /\ returned # None
    /\ llm_calls = 3 /\ submit_requests = 2 /\ status_requests = 4
    /\ store_calls = 1

\* C8: every VideoResult built by generate, on the success path or on the
\* failure path, has status 'completed' or 'failed' and a completed_at that
\* is not earlier than its created_at.
C8_ResultWellFormed ==
    result # None
    => /\ Get(result).status \in {"completed", "failed"}
       /\ Get(result).completed_at >= Get(result).created_at
       /\ Get(result).created_at = start_time

C8_Witness ==
    /\ pc = "done"
    /\ returned # None
    /\ Get(returned).status = "completed"
    /\ Get(returned).completed_at > Get(returned).created_at

\* C9: when an exception of the script request, the submit or the poll loop
\* ends generate, the failed record has status 'failed', empty script, prompt
\* and video location, the stringified exception as error, and as job_id the
\* identifier submit returned, or 'unknown' when submit returned none.
C9_FailedRecord ==
    (pc = "done" /\ failed_step \in {"script", "submit", "poll"})
    => /\ raised # None
       /\ returned = None
       /\ LET r == Get(result) IN
          /\ r.status = "failed"
          /\ r.script = "" /\ r.sora_prompt = "" /\ r.video_url = ""
          /\ r.error = Some(Get(raised).msg)
          /\ IF failed_step = "poll"
             THEN submit_requests > 0 /\ r.job_id \in JobIds /\ r.job_id = Get(job_id)
             ELSE job_id = None /\ r.job_id = "unknown"

C9_Witness ==
    /\ pc = "done"
    /\ failed_step = "poll"
    /\ Get(raised).kind = "TimeoutError"
    /\ Get(result).job_id = "video_b"

\* C10: when storing the failed record raises on the failure path, that
\* storage error is swallowed: generate raises the error that entered the
\* except block, not the storage error.
C10_OriginalErrorSurvives ==
    (pc = "done" /\ store_errors # <<>>)
    => /\ raised = exc
       /\ returned = None
       /\ failed_step # "store" => Get(raised).kind # "OSError"
       /\ Len(store_errors) = 1

C10_Witness ==
    /\ pc = "done"
    /\ store_errors = <<[kind |-> "OSError", msg |-> "EACCES"]>>
    /\ failed_step = "store"
    /\ Get(raised).msg = "ENOSPC"

\* C11: whenever generate ends by raising and store_result is true, the last
\* thing offered to store_result before the error reached the caller is the
\* failed ResultRecord built in the except block, with download disabled.
C11_FailedRecordOffered ==
    (pc = "done" /\ raised # None /\ store_result) =>
        /\ store_log # <<>>
        /\ Last(store_log).record = Get(result)
        /\ Last(store_log).record.status = "failed"
        /\ Last(store_log).record.error = Some(Str(Get(raised)))
        /\ Last(store_log).download = FALSE

\* A render failure reached the caller of a generate that was asked to
\* download, after the failed record was stored.
C11_Witness ==
    /\ pc = "done"
    /\ raised # None
    /\ failed_step = "poll"
    /\ store_result
    /\ download_video
    /\ Len(store_log) = 1
    /\ ~Last(store_log).raised

\* Indices of the store_result calls of this invocation that wrote a record.
WrittenCalls == {i \in DOMAIN store_log : store_log[i].wrote}

\* C12 as stated: the store operation is not performed twice within one
\* generate invocation.
C12_StoreAtMostOnce == store_calls <= 1

\* A completed record's store raised and the except block stored again.
C12_StoredTwice ==
    /\ pc = "done"
    /\ store_calls = 2
    /\ store_log[1].record.status = "completed"
    /\ store_log[2].record.status = "failed"

\* C12 (amended): store_result is called at most twice per invocation, the
\* second time only from the except block after the store of the completed
\* record raised, and at most one of the calls writes a record.
C12_WrittenAtMostOnce ==
    /\ store_calls = Len(store_log)
    /\ store_calls <= 2
    /\ store_calls = 2 =>
          /\ store_log[1].raised
          /\ ~store_log[1].wrote
          /\ store_log[1].record.status = "completed"
          /\ store_log[2].record.status = "failed"
          /\ store_log[2].record.job_id = store_log[1].record.job_id
    /\ Cardinality(WrittenCalls) <= 1
    /\ Cardinality(DOMAIN storage) <= 1

\* The second store wrote the failed record after the first one raised.
C12_Witness ==
    /\ pc = "done"
    /\ store_calls = 2
    /\ WrittenCalls = {2}
    /\ storage[Get(job_id)] = model_dump_json(Get(result))

\* Every request of _call_llm made so far raised and was followed by a wait,
\* except the last one once it has answered.
LLMCallsWellFormed ==
    /\ llm_calls <= 3
    /\ pc = "script" => llm_calls = Len(llm_waits) /\ llm_attempt = llm_calls + 1
    /\ script_data # None => llm_calls = Len(llm_waits) + 1

\* The same for the videos.create requests of generate_video.
SubmitCallsWellFormed ==
    /\ submit_requests <= 3
    /\ pc = "submit" => /\ submit_requests = Len(submit_waits)
                        /\ submit_attempt = submit_requests + 1
    /\ job_id # None => submit_requests = Len(submit_waits) + 1

\* Once a call has answered, its value stays and no further request is made.
C13_NoCallAfterSuccess ==
    /\ script_data # None =>
          script_data' = script_data /\ llm_calls' = llm_calls
    /\ job_id # None =>
          job_id' = job_id /\ submit_requests' = submit_requests

\* C13: the script call and the submit call are each attempted at most 3
\* times; an attempt after the first is made only after the previous one
\* raised, and the first answer is kept without any further request.
C13_AtMostThreeAttempts ==
    [](LLMCallsWellFormed /\ SubmitCallsWellFormed)
        /\ [][C13_NoCallAfterSuccess]_vars

\* Both calls answered on their third attempt and generate returned.
C13_Witness ==
    /\ pc = "done"
    /\ returned # None
    /\ llm_calls = 3
    /\ submit_requests = 3
    /\ Get(returned).job_id = Get(job_id)

\* C14: a script request that failed twice and answered on the third attempt
\* returned the artifact after waiting at least 2 and then at least 4 time
\* units between attempts, and no wait exceeded 10.
C14_BackoffDoubles ==
    (script_data # None /\ llm_calls = 3) =>
        /\ Len(llm_waits) = 2
        /\ llm_waits[1] >= 2
        /\ llm_waits[2] >= 4
        /\ \A i \in DOMAIN llm_waits : llm_waits[i] <= 10

\* All three attempts of _call_llm, or of generate_video, raised.
RetriesExhausted ==
    \/ failed_step = "script" /\ llm_failed = 3
    \/ failed_step = "submit" /\ submit_failed = 3

\* C15: when all 3 attempts of the script call or of submit fail, the error
\* that reaches the caller is the collaborator's error itself, not a
\* wrapper, and its text is the one recorded in the failed record.
C15_UnderlyingErrorSurfaces ==
    (pc = "done" /\ RetriesExhausted) =>
        /\ raised = Some(APIError)
        /\ Get(result).error = Some(Str(APIError))

\* generate_script raised although a request of _call_llm was answered: the
\* reply was malformed.
MalformedReply == failed_step = "script" /\ llm_failed < 3

\* After generate_script raised, no request is made to either collaborator.
C16_NoRequestAfterMalformed ==
    failed_step = "script" =>
        /\ llm_calls' = llm_calls
        /\ submit_requests' = submit_requests

C16_RaisedAtOnce ==
    MalformedReply =>
        /\ Get(exc).kind \in {"ValueError", "ValidationError"}
        /\ llm_calls = llm_failed + 1
        /\ llm_failed = 0 => llm_calls = 1
        /\ script_data = None
        /\ submit_requests = 0
        /\ pc = "done" => raised = exc

\* C16: a malformed reply of the script collaborator makes generate_script
\* raise a validation error after the one request that was answered: the
\* reply is not requested again and no submit request is made.
C16_MalformedNotRetried ==
    []C16_RaisedAtOnce /\ [][C16_NoRequestAfterMalformed]_vars

\* The first request was answered without metadata.tone and generate raised
\* the validation error.
C16_Witness ==
    /\ pc = "done"
    /\ failed_step = "script"
    /\ llm_calls = 1
    /\ llm_failed = 0
    /\ Get(raised).kind = "ValidationError"
    /\ submit_requests = 0

\* C17: download_video_content is invoked for a job identifier only after a
\* status check of that identifier reported completed in this invocation,
\* and never when polling ended in failure, timeout or error.
C17_FetchOnlyAfterCompleted ==
    /\ downloads # <<>> =>
          /\ PollReturned
          /\ Get(video_status).status = "completed"
          /\ Last(seen) = "completed"
          /\ \A i \in DOMAIN downloads :
                downloads[i] = Get(video_status).job_id
    /\ failed_step \in {"script", "submit", "poll", "finalize"} =>
          downloads = <<>>

\* The content of the completed job was fetched once, after two checks that
\* were not terminal.
C17_Witness ==
    /\ pc = "done"
    /\ job_id # None
    /\ downloads = <<Get(job_id)>>
    /\ Len(seen) = 3
    /\ Last(seen) = "completed"

\* C18: when store_result was called with download enabled for a completed
\* record and returned the storage location, the video content has been
\* fetched and written next to the metadata.
C18_ContentWrittenOnReturn ==
    \A i \in DOMAIN store_log :
        (/\ store_log[i].download
         /\ store_log[i].record.status = "completed"
         /\ ~store_log[i].raised) =>
            /\ store_log[i].record.job_id \in DOMAIN storage
            /\ store_log[i].record.job_id \in DOMAIN files
            /\ files[store_log[i].record.job_id] = "whole"

\* The calls of store_result that returned a storage location.
StoredCalls == {i \in DOMAIN store_log : ~store_log[i].raised}

\* C19: for every record r that store_result stored, on every storage type,
\* load_result(r.job_id) returns a record equal to r in every field.
C19_RoundTrip ==
    \A i \in StoredCalls :
        load_result(store_log[i].record.job_id) = Some(store_log[i].record)

\* Request r is inside a time.sleep of its generation.
Suspended(r) ==
    request_state[r] = "sleeping" \/ background_tasks[r] = "sleeping"

\* C20: while one generation request is suspended in a backoff delay or in
\* the poll-loop sleep, every other request waiting at the same process can
\* still be taken up.
C20_SleepBlocksOnlyOwnTask ==
    \A r \in Requests : \A q \in Requests \ {r} :
        (Suspended(r) /\ request_state[q] = "waiting") => ENABLED Serve(q)

\* The invocations that wrote metadata.json of job directory k.
WritersOf(k) == {job_dirs[k][n].by : n \in DOMAIN job_dirs[k]}

\* C21: for any interleaving of concurrent generate invocations, no job
\* directory is written by two of them, so no invocation's persisted record
\* is overwritten by another's.
C21_NoSharedKey ==
    \A k \in DOMAIN job_dirs : Cardinality(WritersOf(k)) <= 1

\* Everything that names a job in this invocation names j.
UsesOnly(j) ==
    /\ checked_ids \subseteq {j}
    /\ video_status # None => Get(video_status).job_id = j
    /\ failed_status # None => Get(failed_status).job_id = j
    /\ \A n \in DOMAIN downloads : downloads[n] = j
    /\ DOMAIN storage \subseteq {j}
    /\ \A n \in DOMAIN store_log : store_log[n].record.job_id = j
    /\ result # None => Get(result).job_id = j
    /\ returned # None => Get(returned).job_id = j

\* The identifier is never reassigned.
C22_JobIdKept == job_id # None => job_id' = job_id

\* C22: once submit returned identifier j, every status check, the content
\* fetch, the storage key and the job_id of the record, on the success and
\* on the failure path, use exactly j, and j is never reassigned.
C22_JobIdImmutable ==
    [](job_id # None => UsesOnly(Get(job_id))) /\ [][C22_JobIdKept]_vars

\* A failed render: the failed record of the assigned identifier was written
\* under that identifier after two status checks.
C22_Witness ==
    /\ pc = "done"
    /\ failed_step = "poll"
    /\ job_id # None
    /\ status_checks = 2
    /\ checked_ids = {Get(job_id)}
    /\ DOMAIN storage = {Get(job_id)}
    /\ Get(result).status = "failed"

\* The reply carries a non-positive duration or no hashtag list.
ReplyBreaksInvariant(reply) ==
    \/ reply.duration # None /\ Get(reply.duration) <= 0
    \/ reply.hashtags = None

\* C23: every artifact generate_script returns has a positive metadata
\* duration and a hashtag list; a reply with a non-positive duration or
\* without hashtag list is rejected and never reaches the submit step.
C23_ArtifactWellFormed ==
    script_result # None =>
        LET reply == Get(script_result).reply
            value == Get(script_result).outcome.value IN
        /\ value # None => Get(value).metadata.duration > 0
        /\ (reply.parses /\ ReplyBreaksInvariant(reply)) =>
              value = None /\ submitted = None

\* C24: a job status produced by check_video_status carries a video location
\* if and only if its status is completed; for queued, in_progress and
\* failed the location is absent.
C24_LocationIffCompleted ==
    status_result # None =>
        LET js == Get(status_result).job_status IN
        /\ js.video_url # None <=> js.status = "completed"
        /\ js.status \in {"queued", "in_progress", "failed"} =>
              js.video_url = None

\* check_video_status answered for a failed job that reported full progress.
C24_Witness ==
    /\ status_result # None
    /\ Get(status_result).response.status = "failed"
    /\ Get(status_result).response.progress = Some(100)
    /\ Get(status_result).job_status.video_url = None

\* C25: a job status produced by check_video_status carries an error
\* description only when its status is failed, whatever the response held.
C25_ErrorOnlyWhenFailed ==
    status_result # None =>
        LET js == Get(status_result).job_status IN
        js.error # None => js.status = "failed"

\* What poll_video_status does, computed from the sequence of statuses and
\* check errors alone: the sleeps it makes ...
SleepsFor(q) ==
    Cardinality({n \in DOMAIN q :
                    \/ q[n] \in {"queued", "in_progress"}
                    \/ q[n] = "error" /\ n < max_poll_attempts})

\* ... and how it ends.
OutcomeFor(q) ==
    IF q = <<>> THEN "TimeoutError"
    ELSE IF Last(q) = "completed" THEN "returned"
    ELSE IF Last(q) = "failed" THEN "RuntimeError"
    ELSE IF Last(q) = "error" THEN "RetryError"
    ELSE "TimeoutError"

\* How poll_video_status ended in this run.
PollOutcome ==
    IF PollReturned THEN "returned" ELSE Get(exc).kind

\* C26: progress has no effect on polling: the number of status checks and
\* sleeps and the outcome of poll_video_status are determined by the
\* sequence of statuses and check errors, whatever progress each carried.
C26_ProgressIgnored ==
    /\ poll_sleeps = SleepsFor(seen)
    /\ status_checks = Len(seen) + (IF pc = "check" THEN 1 ELSE 0)
    /\ (PollReturned \/ PollRaised) => PollOutcome = OutcomeFor(seen)

\* A run whose statuses carried progress ended like the same statuses
\* without progress.
C26_Witness ==
    /\ pc = "done"
    /\ seen = <<"in_progress", "completed">>
    /\ Get(video_status).progress = Some(50)
    /\ poll_sleeps = 1
    /\ returned # None

\* C27: the job_id answered by POST /api/v1/videos/async identifies the
\* background generation it started: the record that generation persisted
\* is found under that job_id.
C27_AsyncJobIdFindsRecord ==
    \A r \in Requests :
        background_tasks[r] = "finished" =>
            async_jobs[r].stored_as = async_jobs[r].job_id

\* store_result = false: the persistence collaborator is never invoked.
NoStoreWithoutFlag ==
    ~store_result => store_calls = 0 /\ store_log = <<>> /\ downloads = <<>>
                        /\ DOMAIN storage = {}

\* download_video = false, and always on the failure path: no content fetch.
NoFetchWithoutFlag ==
    /\ ~download_video => downloads = <<>>
    /\ \A n \in DOMAIN store_log :
          store_log[n].record.status = "failed" => ~store_log[n].download
    /\ raised # None => downloads = <<>>

\* Every step before the store succeeded: generate has a completed record.
RenderSucceeded ==
    /\ video_status # None
    /\ Get(video_status).video_url # None
    /\ Get(video_status).video_url # Some("")

\* The record generate returns, written without reference to the flags.
RecordOfRun ==
    CompletedResult(Get(job_id), Get(script_data), Get(video_status),
                    start_time, now)

\* C28 as stated: the flags are respected on every path and do not change
\* the returned record or the raised error: a run whose steps all succeeded
\* returns its record whatever the flags are.
C28_FlagsChangeNothing ==
    /\ NoStoreWithoutFlag
    /\ NoFetchWithoutFlag
    /\ (pc = "done" /\ RenderSucceeded) => returned = Some(RecordOfRun)

\* C28 (amended): the flags are respected on every path; download_video
\* never changes the outcome, and store_result changes it only when the
\* store of the completed record raises: generate then raises that storage
\* error instead of returning the record.
C28_FlagsRespected ==
    /\ NoStoreWithoutFlag
    /\ NoFetchWithoutFlag
    /\ returned # None => returned = Some(RecordOfRun)
    /\ (pc = "done" /\ RenderSucceeded) =>
          \/ returned = Some(RecordOfRun)
          \/ /\ store_result
             /\ store_log[1].raised
             /\ failed_step = "store"
             /\ Get(raised).kind = "OSError"
    /\ (pc = "done" /\ ~store_result) =>
          (RenderSucceeded <=> returned # None)

\* A failed render with store_result = false: nothing was stored.
C28_Witness ==
    /\ pc = "done"
    /\ ~store_result
    /\ download_video
    /\ failed_step = "poll"
    /\ raised # None
    /\ store_calls = 0

\* poll_video_status used up its attempts without a terminal status.
PollTimedOut ==
    failed_step = "poll" /\ Last(seen) \in {"queued", "in_progress"}

\* The response of POST /api/v1/videos to the outcome of this run.
EndpointResponse == generate_video_response(returned, raised)

\* C29: the synchronous endpoint maps every outcome of generate to exactly
\* one response: a poll timeout to 504, a validation error of the script
\* reply to 400, every other failure to 500, and a record to itself.
C29_OutcomeMapped ==
    pc = "done" =>
        /\ EndpointResponse.status_code \in {200, 400, 500, 504}
        /\ returned # None <=> EndpointResponse.status_code = 200
        /\ returned # None => EndpointResponse.body = returned
        /\ PollTimedOut <=> EndpointResponse.status_code = 504
        /\ MalformedReply <=> EndpointResponse.status_code = 400
        /\ (raised # None /\ ~PollTimedOut /\ ~MalformedReply) =>
              EndpointResponse.status_code = 500

\* A reply without metadata.tone is answered with 400.
C29_Witness ==
    /\ pc = "done"
    /\ raised # None
    /\ Get(raised).kind = "ValidationError"
    /\ EndpointResponse.status_code = 400

\* The metadata.json of the job directory asked for is there and whole.
FileIsWhole(id) ==
    /\ id \in DOMAIN disk
    /\ disk[id].readable /\ disk[id].parses /\ disk[id].validates

\* What load_result gave, against what the storage directory holds.
C30_LoadOutcome ==
    load_outcome # None =>
        LET call == Get(load_outcome) IN
        /\ call.outcome.raised = None
        /\ (call.storage_type = "local" /\ FileIsWhole(call.job_id)) =>
              call.outcome.value =
                 Some(VideoResult(disk[call.job_id].data))
        /\ call.job_id \notin DOMAIN disk => call.outcome.value = None
        /\ ~FileIsWhole(call.job_id) => call.outcome.value = None
        /\ call.storage_type # "local" => call.outcome.value = None

\* load_result leaves the storage directory as it found it.
C30_ReadOnly ==
    load_outcome' # load_outcome => disk' = disk /\ storage' = storage

\* C30: load_result never raises: it returns the stored record when a
\* metadata file exists for the identifier, None when there is none or when
\* reading or parsing it fails, and it never modifies storage.
C30_LoadNeverRaises == []C30_LoadOutcome /\ [][C30_ReadOnly]_vars

\* load_result was asked for a job whose metadata.json is not JSON.
C30_Witness ==
    /\ load_outcome # None
    /\ Get(load_outcome).storage_type = "local"
    /\ Get(load_outcome).job_id \in DOMAIN disk
    /\ ~disk[Get(load_outcome).job_id].parses
    /\ disk[Get(load_outcome).job_id].readable
    /\ Get(load_outcome).outcome.value = None

\* store_result raised for the completed record of this invocation.
SuccessStoreRaised ==
    /\ store_log # <<>>
    /\ store_log[1].record.status = "completed"
    /\ store_log[1].raised

\* C31: when persistence raises on the success path, generate does not
\* return the completed record: it builds a failed record with the real job
\* identifier and the storage error text, stores it with download disabled,
\* and raises the storage error.
C31_StoreErrorFailsRun ==
    SuccessStoreRaised =>
        /\ returned = None
        /\ exc # None
        /\ Get(exc).kind = "OSError"
        /\ Str(Get(exc)) \in {"ENOSPC", "EACCES"}
        /\ pc = "done" =>
              /\ raised = exc
              /\ Len(store_log) = 2
              /\ store_log[2].record = Get(result)
              /\ ~store_log[2].download
              /\ Get(result).status = "failed"
              /\ Get(result).job_id = Get(job_id)
              /\ Get(result).job_id = store_log[1].record.job_id
              /\ Get(result).error = Some(Str(Get(exc)))

\* The disk was full for the completed record; the failed record was then
\* written and the storage error raised.
C31_Witness ==
    /\ pc = "done"
    /\ SuccessStoreRaised
    /\ Get(raised).msg = "ENOSPC"
    /\ ~store_log[2].raised
    /\ download_video


\* The download of the content of job id was attempted and did not complete.
DownloadFailed(id) ==
    /\ \E n \in DOMAIN downloads : downloads[n] = id
    /\ ~(id \in DOMAIN files /\ files[id] = "whole")

\* C32: a failure of the content download inside store_result never fails
\* the invocation: the metadata written before the download stays written,
\* generate returns the completed record without raising, and the job
\* directory holds the completed record and no video file.
C32_DownloadFailureLeavesNoFile ==
    \A id \in JobIds :
        DownloadFailed(id) =>
            /\ id \in DOMAIN storage
            /\ storage[id].status = "completed"
            /\ exc = None
            /\ raised = None
            /\ returned # None
            /\ returned = result
            /\ Get(returned).status = "completed"
            /\ id \notin DOMAIN files


\* The statuses that keep poll_video_status in its loop.
NonTerminal == {"queued", "in_progress"}

\* C33: poll_video_status raises TimeoutError only when the attempt that
\* used up the budget observed a non-terminal status; when the status check
\* of that last attempt errors, the check error is raised and TimeoutError is
\* not.  Which of the two is raised depends on the last attempt alone.
C33_LastAttemptDecides ==
    /\ (PollRaised /\ Get(exc).kind = "TimeoutError")
       => /\ Len(seen) = max_poll_attempts
          /\ Last(seen) \in NonTerminal
    /\ (Len(seen) = max_poll_attempts /\ Last(seen) = "error")
       => /\ PollRaised
          /\ Get(exc).kind = "RetryError"
          /\ pc \in {"except", "done"}
          /\ (pc = "done" => Get(raised).kind = "RetryError")
    /\ (Len(seen) = max_poll_attempts /\ Last(seen) \in NonTerminal
        /\ pc # "poll")
       => /\ PollRaised
          /\ Get(exc).kind = "TimeoutError"
          /\ (pc = "done" => Get(raised).kind = "TimeoutError")

\* Non-terminal statuses on the earlier attempts, a check error on the last
\* one: the check error came out.
C33_Witness ==
    /\ pc = "done"
    /\ Len(seen) = max_poll_attempts
    /\ \A n \in 1..(Len(seen) - 1) : seen[n] \in NonTerminal
    /\ Last(seen) = "error"
    /\ Get(raised).kind = "RetryError"


\* Status requests already made by the poll attempt that is under way.
RequestsUnderWay == IF pc = "check" THEN check_attempt - 1 ELSE 0

\* Every finished poll attempt made between 1 and 3 status requests, and
\* every request belongs to a counted attempt.
C34_RequestsPerAttempt ==
    /\ status_requests - RequestsUnderWay >= Len(seen)
    /\ status_requests - RequestsUnderWay <= 3 * Len(seen)
    /\ RequestsUnderWay \in 0..2
    /\ attempts = Len(seen) + (IF pc = "check" THEN 1 ELSE 0)
    /\ status_requests <= 3 * attempts
    /\ status_requests <= 3 * max_poll_attempts

\* One step of the poll: the attempt is counted once, at the loop head and
\* before any request; each request either ends the attempt or leads to the
\* next try of the same attempt; the attempt ends as a check error only on
\* its third failed request.
C34_Request ==
    /\ status_requests' \in {status_requests, status_requests + 1}
    /\ attempts' # attempts
       => /\ attempts' = attempts + 1
          /\ status_requests' = status_requests
          /\ check_attempt' = 1
    /\ status_requests' # status_requests
       => /\ pc = "check"
          /\ attempts' = attempts
          /\ check_attempt \in 1..3
          /\ IF seen' = seen
             THEN /\ check_attempt' = check_attempt + 1
                  /\ check_attempt < 3
                  /\ pc' = "check"
             ELSE /\ Len(seen') = Len(seen) + 1
                  /\ pc' # "check"
                  /\ (Last(seen') = "error" => check_attempt = 3)

\* C34: one poll attempt issues between 1 and 3 status requests, counts once
\* against the budget and is a check error only if all 3 requests fail, so
\* one poll never issues more than 3 x max_poll_attempts status requests.
C34_RequestBudget == []C34_RequestsPerAttempt /\ [][C34_Request]_vars

\* Every attempt of a poll used all three requests.
C34_Witness ==
    /\ pc = "done"
    /\ attempts = max_poll_attempts
    /\ status_requests = 3 * max_poll_attempts
    /\ \E n \in DOMAIN seen : seen[n] # "error"


\* The sleeps made by a poll that has ended in an exception of the budget.
C35_SleepsBeforeRaise ==
    PollRaised =>
        /\ Get(exc).kind = "TimeoutError" => poll_sleeps = max_poll_attempts
        /\ Get(exc).kind = "RetryError" => poll_sleeps = max_poll_attempts - 1

\* The step that ends a poll attempt: a non-terminal status is followed by
\* one sleep of the poll interval on every attempt, the last one included;
\* a check error on the last budgeted attempt is followed by none.
C35_SleepAfterCheck ==
    Len(seen') = Len(seen) + 1 =>
        /\ Last(seen') \in NonTerminal
           => /\ poll_sleeps' = poll_sleeps + 1
              /\ now' = now + poll_interval_seconds
        /\ (Last(seen') = "error" /\ Len(seen') = max_poll_attempts)
           => /\ poll_sleeps' = poll_sleeps
              /\ now' = now
              /\ pc' = "except"

\* C35: on the timeout path the poll-interval sleep follows every
\* non-terminal check, the last budgeted one included, so exactly
\* max_poll_attempts sleeps precede the TimeoutError; after a check error on
\* the last budgeted attempt there is no sleep.
C35_SleepsOnTimeout == []C35_SleepsBeforeRaise /\ [][C35_SleepAfterCheck]_vars

\* A poll that timed out after check errors and non-terminal statuses.
C35_Witness ==
    /\ pc = "done"
    /\ raised # None
    /\ Get(raised).kind = "TimeoutError"
    /\ poll_sleeps = max_poll_attempts
    /\ seen[1] = "error"
    /\ Last(seen) = "in_progress"


(***************************************************************************)
(* One run of generate with the answer to every status check recorded as  *)
(* the collaborator sent it.                                               *)
(***************************************************************************)
\* videos.retrieve answers: as StatusRequestOk, and response.status is noted
\* against the poll attempt that asked for it.
StatusRequestAnswered ==
    /\ \E response \in StatusResponses :
         /\ CheckReturns(response)
         /\ raw_seen' = Append(raw_seen, [attempt |-> attempts,
                                          status |-> response.status])
    /\ UNCHANGED <<script_result, submitted, status_result, disk, load_outcome,
                   gui>>

PollNext ==
    \/ Generate
    \/ LLMRequestFail
    \/ LLMRequestOk
    \/ SubmitRequestFail
    \/ SubmitRequestOk
    \/ PollLoopHead
    \/ StatusRequestFail
    \/ StatusRequestAnswered
    \/ Finalize
    \/ ExceptHandler

\* The run keeps its result in memory.
PollInit == Init /\ storage_type = "local" /\ ~store_result /\ ~download_video

PollSpec == PollInit /\ [][PollNext]_vars

\* The answered checks whose status string is none of the four known ones,
\* as sent ...
OutsideAsSent == {k \in DOMAIN raw_seen : raw_seen[k].status \notin VideoStatusValues}

\* ... and after lower-casing.
OutsideLowered ==
    {k \in DOMAIN raw_seen : lower(raw_seen[k].status) \notin VideoStatusValues}

\* Answered check k was taken as queued, did not end the poll and did not
\* raise: the poll went on, or k was the last budgeted attempt and the poll
\* timed out.
TakenAsQueued(k) ==
    LET a == raw_seen[k].attempt IN
    /\ a \in DOMAIN seen
    /\ seen[a] = "queued"
    /\ (video_status # None \/ failed_status # None) => a < Len(seen)
    /\ a = Len(seen) =>
          \/ pc \in {"poll", "check"} /\ exc = None /\ poll_sleeps = a
          \/ /\ a = max_poll_attempts
             /\ PollRaised
             /\ Get(exc).kind = "TimeoutError"
             /\ poll_sleeps = a

\* The status check that was just answered.
JustAnswered == Len(raw_seen') = Len(raw_seen) + 1

\* An answer that is none of the four statuses uses up the one attempt
\* counted for it and one sleep, and the poll goes back to the loop test.
QueuedStep ==
    /\ attempts' = attempts
    /\ Last(raw_seen').attempt = attempts
    /\ poll_sleeps' = poll_sleeps + 1
    /\ now' = now + poll_interval_seconds
    /\ pc' = "poll"
    /\ exc' = exc

\* The collaborator answered every budgeted check, each time with a status
\* string that is none of the four.
KeepsReportingOutside ==
    /\ Len(raw_seen) = max_poll_attempts
    /\ OutsideLowered = DOMAIN raw_seen

C36_Unknown ==
    /\ \A k \in OutsideLowered : TakenAsQueued(k)
    /\ (KeepsReportingOutside /\ pc # "poll")
       => /\ PollRaised
          /\ Get(exc).kind = "TimeoutError"
          /\ attempts = max_poll_attempts
          /\ (pc = "done" => Get(raised).kind = "TimeoutError")

C36_UnknownStep ==
    (JustAnswered /\ lower(Last(raw_seen').status) \notin VideoStatusValues)
        => QueuedStep

\* C36 (amended): a status string whose lower-case form is outside {queued,
\* in_progress, completed, failed} is treated as queued: it is never
\* terminal, never raises by itself, consumes one poll attempt and one
\* sleep, and if the collaborator keeps reporting it the poll ends in
\* TimeoutError.
C36_UnknownIsQueued == []C36_Unknown /\ [][C36_UnknownStep]_vars

\* C36: a status string from the rendering collaborator outside {queued,
\* in_progress, completed, failed} is treated as queued: it is never
\* terminal and never raises by itself.
C36_OutsideIsQueued == \A k \in OutsideAsSent : TakenAsQueued(k)

\* The collaborator answered "expired" to every check and the poll timed
\* out.
C36_Witness ==
    /\ pc = "done"
    /\ KeepsReportingOutside
    /\ \A k \in DOMAIN raw_seen : raw_seen[k].status = "expired"
    /\ raised # None
    /\ Get(raised).kind = "TimeoutError"
    /\ poll_sleeps = max_poll_attempts


(***************************************************************************)
(* gui.py: VideoGeneratorGUI.generate_video, the handler of the Generate   *)
(* button.  It calls generate_script and generate_video itself and then    *)
(* runs its own poll loop over check_video_status.                         *)
(***************************************************************************)
\* What the handler returns as its status text.
GuiOutcomes == {"success", "failed", "timed out", "error"}

\* Lines 63-108: the script and the job are obtained, or one of the two
\* calls raises and the except clause at line 171 reports the error.
GuiStart ==
    /\ gui.pc = "idle"
    /\ \/ \E id \in JobIds :
            gui' = [gui EXCEPT !.pc = "poll", !.job_id = Some(id)]
       \/ gui' = [gui EXCEPT !.pc = "done", !.outcome = Some("error")]
    /\ UNCHANGED <<script_result, submitted, status_result, disk, load_outcome,
                   raw_seen, pipelineVars, serverVars, concVars>>

\* Lines 113-117: attempts = 0 and the while test; with budget left the
\* attempt is counted and check_video_status is called.
GuiLoopHead ==
    /\ gui.pc = "poll"
    /\ gui' = IF gui.attempts < max_poll_attempts
              THEN [gui EXCEPT !.pc = "check", !.attempts = @ + 1]
              ELSE [gui EXCEPT !.pc = "after_loop"]
    /\ UNCHANGED <<script_result, submitted, status_result, disk, load_outcome,
                   raw_seen, pipelineVars, serverVars, concVars>>

\* Lines 120-122: the progress bar moves only for a truthy status.progress.
GuiProgress(shown, status) ==
    IF status.progress \in {None, Some(0)} THEN shown ELSE status.progress

\* Lines 118-131: check_video_status returns a status (or raises after its
\* retries).  completed breaks out of the loop, failed returns the failure
\* text, anything else sleeps and loops.
GuiCheck ==
    /\ gui.pc = "check"
    /\ \/ \E response \in StatusResponses :
            LET status == VideoJobStatus(Get(gui.job_id), response) IN
            gui' = [gui EXCEPT
                      !.seen = Append(@, status),
                      !.progress = GuiProgress(@, status),
                      !.pc = IF status.status = "completed" THEN "after_loop"
                             ELSE IF status.status = "failed" THEN "done"
                             ELSE "poll",
                      !.outcome = IF status.status = "failed"
                                  THEN Some("failed") ELSE @,
                      !.sleeps = IF status.status \in {"completed", "failed"}
                                 THEN @ ELSE @ + 1]
       \/ gui' = [gui EXCEPT !.pc = "done", !.outcome = Some("error")]
    /\ UNCHANGED <<script_result, submitted, status_result, disk, load_outcome,
                   raw_seen, pipelineVars, serverVars, concVars>>

\* Lines 133-169: after the loop.  With attempts >= max_attempts the handler
\* returns the timed-out text; otherwise it downloads the video, writes its
\* metadata and returns the success text, and an exception of either lands
\* in the except clause.
GuiAfterLoop ==
    /\ gui.pc = "after_loop"
    /\ IF gui.attempts >= max_poll_attempts
       THEN gui' = [gui EXCEPT !.pc = "done", !.outcome = Some("timed out")]
       ELSE \E dl \in DownloadOutcomes, w \in WriteOutcomes :
              gui' = [gui EXCEPT
                        !.pc = "done",
                        !.downloads = @ + 1,
                        !.outcome = IF dl = "ok" /\ w = "ok"
                                    THEN Some("success") ELSE Some("error")]
    /\ UNCHANGED <<script_result, submitted, status_result, disk, load_outcome,
                   raw_seen, pipelineVars, serverVars, concVars>>

GuiNext ==
    \/ GuiStart
    \/ GuiLoopHead
    \/ GuiCheck
    \/ GuiAfterLoop

\* The GUI builds its own pipeline with the default settings.
GuiInit == Init /\ storage_type = "local" /\ store_result /\ download_video

GuiSpec == GuiInit /\ [][GuiNext]_vars

\* poll_video_status, lines 131-164, as a function of the statuses q that
\* its status checks return, from attempt n on: what the call ends in, or
\* "polling" when q ends before the poll does.
RECURSIVE poll_video_status(_, _)
poll_video_status(q, n) ==
    IF ~BudgetLeft(n) THEN "TimeoutError"
    ELSE IF n + 1 > Len(q) THEN "polling"
    ELSE IF IsCompleted(q[n + 1]) THEN "returned"
    ELSE IF IsFailed(q[n + 1]) THEN "RuntimeError"
    ELSE poll_video_status(q, n + 1)

\* The handler has returned and no call of it raised.
GuiEndedErrorFree ==
    /\ gui.pc = "done"
    /\ gui.job_id # None
    /\ gui.outcome # Some("error") \/ gui.downloads = 1

\* C37: the GUI's poll loop agrees with poll_video_status on the outcome
\* for every error-free status sequence: whenever one of the first
\* max_poll_attempts checks observes completed, the last budgeted one
\* included, the GUI goes on to download the video, and it reports timed
\* out only when no check within the budget observed a terminal status.
C37_GuiAgreesWithPoll ==
    GuiEndedErrorFree =>
        /\ poll_video_status(gui.seen, 0) = "returned" <=> gui.downloads = 1
        /\ poll_video_status(gui.seen, 0) = "TimeoutError"
              <=> gui.outcome = Some("timed out")
        /\ poll_video_status(gui.seen, 0) = "RuntimeError"
              <=> gui.outcome = Some("failed")

====
